---- MODULE Spec2Model ----
(***************************************************************************)
(* A model of the JWKS-backed bearer-token verification subsystem of       *)
(* simple-query-server:                                                    *)
(*   - the JWKS client with its background refresh task, its cache under   *)
(*     a reader/writer lock, GetPublicKey and Close (package jwt);         *)
(*   - the bearer middleware, the header middleware and the middleware     *)
(*     chain (package middleware).                                         *)
(* Time is counted in whole seconds.                                       *)
(***************************************************************************)
EXTENDS Integers, Sequences, FiniteSets, TLC

(***************************************************************************)
(* Bounds of the model.                                                    *)
(***************************************************************************)
MaxTime == 120
MaxFetches == 3
FallbackTTL == 20
MaxAgeSec == 10
FetchSeconds == 1
MaxClock == 340
MaxFailureCount == 40
MaxDirectives == 3
MaxChainConfigs == 2
MaxCloseChain == 3
MaxHealthChain == 3
MaxKeys == 3
TickWindow == 40

(***************************************************************************)
(* Program constants.                                                      *)
(***************************************************************************)
BaseIntervalSec == 30
MaxIntervalSec == 600
Int64MaxQ == 1229782938
MinRefreshIntervalSec == 300

Readers == {"r1"}
Kids == {"k1", "k2"}
NoKey == "none"

VARIABLES
    cache,          \* c.cache: [fetchedAt, keysByID, ttl]
    failureCount,   \* c.failureCount
    rwWriter,       \* c.cacheMutex is write-locked
    rwReaders,      \* number of read locks held on c.cacheMutex
    bgPc,           \* position of the backgroundRefresh goroutine
    bgNew,          \* newCache returned by fetchJWKSFromServer
    bgErr,          \* err returned by fetchJWKSFromServer
    bgResp,         \* the HTTP response fetchJWKSFromServer received
    wakeAt,         \* instant at which time.After(waitDuration) fires
    initialized,    \* c.initialized is closed
    cancelled,      \* c.ctx is cancelled
    refreshDone,    \* c.refreshDone is closed
    closePc,        \* position of the caller of Close()
    rdPc,           \* position of each caller of GetPublicKey
    rdKid,          \* kid argument of each caller of GetPublicKey
    rdResult,       \* last value returned to each caller of GetPublicKey
    fetchCount,     \* HTTP requests received by the JWKS endpoint
    now,            \* the clock
    hist            \* history: the latest applied successful fetch

clientVars == <<cache, failureCount, rwWriter, rwReaders, bgPc, bgNew, bgErr, bgResp,
                wakeAt, initialized, cancelled, refreshDone, closePc, rdPc,
                rdKid, rdResult, fetchCount, now, hist>>

VARIABLES
    chain,          \* the configured middleware.Chain
    jwksServed,     \* what the JWKS endpoint serves to the middleware's fetch
    keyCache,       \* m.keyCache of the bearer middleware
    mwFetches,      \* JWKS fetches made by the bearer middleware
    reqPc,          \* "idle", "running" or "done"
    req,            \* the HTTP request being served
    ctx,            \* the request context's MiddlewareParamsKey value
    pos,            \* index, in the wrapped handler, of the handler running
    invoked,        \* the handlers called so far, in call order
    status,         \* the response status written, 0 when none
    captured,       \* the parameters the final handler found
    writes          \* history: the parameter writes, in execution order

mwVars == <<chain, jwksServed, keyCache, mwFetches, reqPc, req, ctx, pos,
            invoked, status, captured, writes>>

VARIABLES
    jwksCache,          \* c.cache of the on-demand client (internal/jwt)
    lastRefreshAttempt, \* c.lastRefreshAttempt, 0 for the zero time
    clock,              \* the clock of the on-demand client
    getPc,              \* position and arguments of the caller of GetPublicKey
    refreshSpawned,     \* a "go c.backgroundRefresh()" has yet to run
    fetchLog            \* history: what the fetches did so far

onDemandVars == <<jwksCache, lastRefreshAttempt, clock, getPc, refreshSpawned,
                  fetchLog>>

VARIABLES
    callArg,            \* the argument of a call of one of the pure functions
    callOut             \* what the call returned, once it has

pureVars == <<callArg, callOut>>

vars == <<clientVars, mwVars, onDemandVars, pureVars>>

(***************************************************************************)
(* The JWKS endpoint's possible answers.                                   *)
(***************************************************************************)
JWK(kty, kid, x5c, n) == [kty |-> kty, kid |-> kid, x5c |-> x5c, n |-> n]

\* The key lists the endpoint serves: keys given by modulus and exponent, by
\* certificate, by both, a non-RSA key, a bad certificate, a key with neither,
\* and an empty keys array.
KeyLists ==
    { <<>>,
      <<JWK("RSA", "k1", <<>>, "modA")>>,
      <<JWK("RSA", "k1", <<>>, "modA"), JWK("RSA", "k2", <<"certB">>, "")>>,
      <<JWK("EC", "k1", <<>>, "modE"), JWK("RSA", "k2", <<"certC">>, "modA")>>,
      <<JWK("RSA", "k2", <<"badcert">>, ""), JWK("RSA", "k1", <<>>, "")>> }

\* A response body: JSON that parses into a key list, or JSON that does not.
Bodies ==
    [json : {TRUE}, keys : KeyLists]
    \cup [json : {FALSE}, keys : {<<>>}]

\* One Cache-Control directive; atoi tells whether the text after "max-age="
\* is a number, val is that number.
Directive(name, atoi, val) ==
    [name |-> name, atoi |-> atoi, val |-> val, beyond |-> FALSE]

\* max-age=N for the N that is val above the largest whole number of seconds
\* an int64 of nanoseconds holds (max-age=9223372037 for val = 1).
BeyondMaxAge(val) == [name |-> "max-age", atoi |-> TRUE, val |-> val, beyond |-> TRUE]

\* time.Duration(maxAge) * time.Second, in seconds.  For the numbers beyond
\* the int64 range of nanoseconds the product wraps around to a negative
\* duration of about -292 years, kept here as a negative duration longer
\* than MaxTime.
maxAgeDuration(d) == IF d.beyond THEN -(MaxTime + d.val) ELSE d.val

CacheControls ==
    { <<>>,
      <<Directive("public", FALSE, 0), Directive("max-age", TRUE, MaxAgeSec)>>,
      <<Directive("no-store", FALSE, 0)>> }

NoBody == [json : {FALSE}, keys : {<<>>}]

Responses ==
    [kind : {"ok"}, status : {200}, cc : CacheControls, body : Bodies]
    \cup [kind : {"ok"}, status : {500}, cc : {<<>>}, body : NoBody]
    \cup [kind : {"neterr", "readerr"}, status : {200}, cc : {<<>>}, body : NoBody]

(***************************************************************************)
(* Pure functions of the client.                                           *)
(***************************************************************************)
RECURSIVE parseCacheControlFrom(_, _)
parseCacheControlFrom(directives, i) ==
    IF i > Len(directives) THEN FallbackTTL
    ELSE IF directives[i].name = "max-age" /\ directives[i].atoi
                 /\ directives[i].val >= 0
         THEN maxAgeDuration(directives[i])
    ELSE IF directives[i].name \in {"no-cache", "no-store"} THEN 0
    ELSE parseCacheControlFrom(directives, i + 1)

parseCacheControl(cacheControl) ==
    IF cacheControl = <<>> THEN FallbackTTL
    ELSE parseCacheControlFrom(cacheControl, 1)

\* The key, or NoKey when the entry cannot be parsed.
parseRSAKey(key) ==
    IF Len(key.x5c) > 0
    THEN IF key.x5c[1] = "badcert" THEN NoKey ELSE key.x5c[1]
    ELSE IF key.n = "undecodable" THEN NoKey
    ELSE IF key.n # "" THEN key.n
    ELSE NoKey

\* A conversion loop that gives up at the first entry it cannot use.
RECURSIVE keysFromStopAtBad(_, _, _)
keysFromStopAtBad(keys, i, acc) ==
    IF i > Len(keys) THEN acc
    ELSE IF keys[i].kty = "RSA" /\ parseRSAKey(keys[i]) # NoKey
         THEN keysFromStopAtBad(keys, i + 1,
                  [k \in (DOMAIN acc) \cup {keys[i].kid} |->
                      IF k = keys[i].kid THEN parseRSAKey(keys[i]) ELSE acc[k]])
    ELSE acc

RECURSIVE keysFrom(_, _, _)
keysFrom(keys, i, acc) ==
    IF i > Len(keys) THEN acc
    ELSE IF keys[i].kty = "RSA" /\ parseRSAKey(keys[i]) # NoKey
         THEN keysFrom(keys, i + 1,
                  [k \in (DOMAIN acc) \cup {keys[i].kid} |->
                      IF k = keys[i].kid THEN parseRSAKey(keys[i]) ELSE acc[k]])
    ELSE keysFrom(keys, i + 1, acc)

EmptyKeys == [k \in {} |-> NoKey]

\* The nil *JWKSCache that accompanies an error.
NilCache == [fetchedAt |-> 0, keysByID |-> EmptyKeys, ttl |-> 0]

\* <<newCache, err>> of fetchJWKSFromServer for the endpoint's answer resp.
fetchJWKSFromServer(resp, t) ==
    IF resp.kind = "neterr" THEN <<NilCache, "get">>
    ELSE IF resp.status # 200 THEN <<NilCache, "status">>
    ELSE IF resp.kind = "readerr" THEN <<NilCache, "read">>
    ELSE IF ~resp.body.json THEN <<NilCache, "json">>
    ELSE << [fetchedAt |-> t,
             keysByID |-> keysFrom(resp.body.keys, 1, EmptyKeys),
             ttl |-> parseCacheControl(resp.cc)], "nil" >>

\* The value GetPublicKey returns for kid from the cache record c.
GetPublicKeyValue(c, kid) ==
    IF kid \in DOMAIN c.keysByID
    THEN [found |-> TRUE, key |-> c.keysByID[kid]]
    ELSE [found |-> FALSE, key |-> NoKey]

Min(a, b) == IF a < b THEN a ELSE b

(***************************************************************************)
(* calculateBackoffDuration.  Its durations are time.Duration values, that *)
(* is int64 nanoseconds; here they are counted in quarters of the base     *)
(* interval (7.5 s), and Int64MaxQ is the largest int64 in that unit.      *)
(***************************************************************************)
BaseIntervalQ == 4
MaxIntervalQ == (MaxIntervalSec * BaseIntervalQ) \div BaseIntervalSec

\* math.Pow(2, k), followed exactly up to the first power above cap.
RECURSIVE Pow2(_, _)
Pow2(k, cap) ==
    IF k <= 0 THEN 1
    ELSE LET h == Pow2(k - 1, cap) IN IF h > cap THEN h ELSE 2 * h

\* float64(baseInterval) * math.Pow(2, float64(n-1)) fits an int64.
FitsInt64(n) == Pow2(n - 1, Int64MaxQ \div BaseIntervalQ) <= Int64MaxQ \div BaseIntervalQ

\* time.Duration(float64(baseInterval) * math.Pow(2, float64(n-1))): the
\* value when it fits an int64; when it does not, Go leaves the result of
\* the conversion to the implementation: the smallest int64 (amd64) or the
\* largest (arm64).
durationOfFloat(n) ==
    IF FitsInt64(n) THEN { BaseIntervalQ * Pow2(n - 1, Int64MaxQ \div BaseIntervalQ) }
    ELSE { -Int64MaxQ, Int64MaxQ }

\* backoffInterval after "if backoffInterval > maxInterval".
backoffInterval(n) ==
    { IF d > MaxIntervalQ THEN MaxIntervalQ ELSE d : d \in durationOfFloat(n) }

\* The jitter drawn by rand.Float64() for the interval b: the two ends and
\* the middle of its range.
Jitters(b) ==
    LET jitterRange == IF b >= 0 THEN b \div 4 ELSE -((-b) \div 4)
    IN  { -jitterRange, 0, jitterRange }

\* int64 addition wraps around.
WrapInt64(x) ==
    IF x > Int64MaxQ THEN (x - Int64MaxQ) - Int64MaxQ
    ELSE IF x < -Int64MaxQ THEN (x + Int64MaxQ) + Int64MaxQ
    ELSE x

\* The durations calculateBackoffDuration can return for failure count n.
calculateBackoffDuration(n) ==
    IF n = 0 THEN {0}
    ELSE UNION { { WrapInt64(b + j) : j \in Jitters(b) } : b \in backoffInterval(n) }

\* A duration in seconds as time.After takes it: at once when it is not
\* positive, and a duration beyond every backoff never within MaxTime.
SecondsOf(q) ==
    IF q <= 0 THEN 0
    ELSE IF q > 2 * MaxIntervalQ THEN MaxTime + 1
    ELSE (q * BaseIntervalSec) \div BaseIntervalQ

\* Wait durations that follow the 80% rule whenever the cache holds a key,
\* whatever the failure count.
waitDurationsByTTL ==
    IF Cardinality(DOMAIN cache.keysByID) > 0
    THEN LET refreshTime == cache.fetchedAt + ((cache.ttl * 4) \div 5)
         IN  { IF refreshTime - now < 0 THEN 0 ELSE refreshTime - now }
    ELSE { SecondsOf(q) : q \in calculateBackoffDuration(failureCount) }

\* The durations the loop can wait before its next attempt.
waitDurations ==
    IF Cardinality(DOMAIN cache.keysByID) > 0 /\ failureCount = 0
    THEN LET refreshTime == cache.fetchedAt + ((cache.ttl * 4) \div 5)
         IN  { IF refreshTime - now < 0 THEN 0 ELSE refreshTime - now }
    ELSE { SecondsOf(q) : q \in calculateBackoffDuration(failureCount) }

NoCall == callArg = "none" /\ callOut = [done |-> FALSE]

(***************************************************************************)
(* Init: the state NewJWKSClient leaves.                                   *)
(***************************************************************************)
InitCache == [fetchedAt |-> 0, keysByID |-> EmptyKeys, ttl |-> FallbackTTL]

NoResult == [found |-> FALSE, key |-> "pending"]

NoResponse == [kind |-> "neterr", status |-> 200, cc |-> <<>>,
               body |-> [json |-> FALSE, keys |-> <<>>]]

\* History: the cache record returned by the latest applied successful fetch,
\* the key list its response carried, every kid cached so far, and the
\* number of attempts that have failed since the latest successful one.
InitHist == [committed |-> InitCache, served |-> <<>>, everKids |-> {},
             failedRun |-> 0]

ClientInit ==
    /\ cache = InitCache
    /\ failureCount = 0
    /\ rwWriter = FALSE
    /\ rwReaders = 0
    /\ bgPc = "refresh"
    /\ bgNew = InitCache
    /\ bgErr = "nil"
    /\ wakeAt = 0
    /\ initialized = FALSE
    /\ cancelled = FALSE
    /\ refreshDone = FALSE
    /\ closePc = "none"
    /\ rdPc = [r \in Readers |-> "idle"]
    /\ rdKid = [r \in Readers |-> "k1"]
    /\ rdResult = [r \in Readers |-> NoResult]
    /\ fetchCount = 0
    /\ now = 1
    /\ bgResp = NoResponse
    /\ hist = InitHist


(***************************************************************************)
(* The background refresh task.                                            *)
(***************************************************************************)
bgFrame == <<rdPc, rdKid, rdResult, closePc, cancelled, mwVars, onDemandVars,
            pureVars>>

\* A performRefresh that takes the write lock before it sends the HTTP GET.
BgStartFetchLocked ==
    /\ bgPc = "refresh"
    /\ ~rwWriter
    /\ rwReaders = 0
    /\ rwWriter' = TRUE
    /\ bgPc' = "fetching"
    /\ fetchCount' = fetchCount + 1
    /\ UNCHANGED <<cache, failureCount, rwReaders, bgNew, bgErr, bgResp,
                   wakeAt, initialized, refreshDone, now, hist>>
    /\ UNCHANGED bgFrame

\* performRefresh: fetchJWKSFromServer sends the HTTP GET, holding no lock.
BgStartFetch ==
    /\ bgPc = "refresh"
    /\ bgPc' = "fetching"
    /\ fetchCount' = fetchCount + 1
    /\ UNCHANGED <<cache, failureCount, rwWriter, rwReaders, bgNew, bgErr, bgResp,
                   wakeAt, initialized, refreshDone, now, hist>>
    /\ UNCHANGED bgFrame

\* A fetchJWKSFromServer whose error sends the task straight to its next
\* attempt, the failure not recorded.
BgFetchReturnRetryAtOnce ==
    /\ bgPc = "fetching"
    /\ now + FetchSeconds <= MaxTime
    /\ now' = now + FetchSeconds
    /\ \E resp \in Responses :
          /\ bgResp' = resp
          /\ bgNew' = fetchJWKSFromServer(resp, now')[1]
          /\ bgErr' = fetchJWKSFromServer(resp, now')[2]
    /\ bgPc' = IF bgErr' # "nil" /\ fetchCount < MaxFetches THEN "refresh" ELSE "lock"
    /\ UNCHANGED <<cache, failureCount, rwWriter, rwReaders, fetchCount,
                   wakeAt, initialized, refreshDone, hist>>
    /\ UNCHANGED bgFrame

\* fetchJWKSFromServer returns for the endpoint's answer, FetchSeconds after
\* the request was sent.
BgFetchReturn ==
    /\ bgPc = "fetching"
    /\ now + FetchSeconds <= MaxTime
    /\ now' = now + FetchSeconds
    /\ \E resp \in Responses :
          /\ bgResp' = resp
          /\ bgNew' = fetchJWKSFromServer(resp, now')[1]
          /\ bgErr' = fetchJWKSFromServer(resp, now')[2]
    /\ bgPc' = "lock"
    /\ UNCHANGED <<cache, failureCount, rwWriter, rwReaders, fetchCount,
                   wakeAt, initialized, refreshDone, hist>>
    /\ UNCHANGED bgFrame

\* performRefresh: c.cacheMutex.Lock()
BgLock ==
    /\ bgPc = "lock"
    /\ ~rwWriter
    /\ rwReaders = 0
    /\ rwWriter' = TRUE
    /\ bgPc' = IF bgErr # "nil" THEN "w_fail" ELSE "w_count"
    /\ UNCHANGED <<cache, failureCount, rwReaders, bgNew, bgErr, bgResp, fetchCount,
                   wakeAt, initialized, refreshDone, now, hist>>
    /\ UNCHANGED bgFrame

\* A failed attempt that drops the cached keys.
cacheClearedOnFailure == [cache EXCEPT !.keysByID = EmptyKeys]

\* The cache record a failed attempt leaves.
cacheAfterFailure == cache

\* performRefresh, failure: c.failureCount++
BgWriteFailure ==
    /\ bgPc = "w_fail"
    /\ failureCount' = failureCount + 1
    /\ cache' = cacheAfterFailure
    /\ bgPc' = "unlock"
    /\ UNCHANGED <<rwWriter, rwReaders, bgNew, bgErr, bgResp, fetchCount,
                   wakeAt, initialized, refreshDone, now, hist>>
    /\ UNCHANGED bgFrame

\* A successful attempt that leaves the failure count as it is.
BgWriteCountKept ==
    /\ bgPc = "w_count"
    /\ bgPc' = "w_fetchedAt"
    /\ UNCHANGED <<cache, failureCount, rwWriter, rwReaders, bgNew, bgErr, bgResp,
                   fetchCount, wakeAt, initialized, refreshDone, now, hist>>
    /\ UNCHANGED bgFrame

\* performRefresh, success: c.failureCount = 0
BgWriteCount ==
    /\ bgPc = "w_count"
    /\ failureCount' = 0
    /\ bgPc' = "w_fetchedAt"
    /\ UNCHANGED <<cache, rwWriter, rwReaders, bgNew, bgErr, bgResp, fetchCount,
                   wakeAt, initialized, refreshDone, now, hist>>
    /\ UNCHANGED bgFrame

\* performRefresh, success: c.cache.fetchedAt = newCache.fetchedAt
BgWriteFetchedAt ==
    /\ bgPc = "w_fetchedAt"
    /\ cache' = [cache EXCEPT !.fetchedAt = bgNew.fetchedAt]
    /\ bgPc' = "w_keys"
    /\ UNCHANGED <<failureCount, rwWriter, rwReaders, bgNew, bgErr, bgResp, fetchCount,
                   wakeAt, initialized, refreshDone, now, hist>>
    /\ UNCHANGED bgFrame

\* A successful attempt that adds the fetched keys to the cached ones.
keysMergedOnSuccess ==
    [k \in (DOMAIN cache.keysByID) \cup (DOMAIN bgNew.keysByID) |->
        IF k \in DOMAIN bgNew.keysByID THEN bgNew.keysByID[k]
        ELSE cache.keysByID[k]]

\* The key map a successful attempt stores.
keysAfterSuccess == bgNew.keysByID

\* performRefresh, success: c.cache.keysByID = newCache.keysByID
BgWriteKeys ==
    /\ bgPc = "w_keys"
    /\ cache' = [cache EXCEPT !.keysByID = keysAfterSuccess]
    /\ bgPc' = "w_ttl"
    /\ UNCHANGED <<failureCount, rwWriter, rwReaders, bgNew, bgErr, bgResp, fetchCount,
                   wakeAt, initialized, refreshDone, now, hist>>
    /\ UNCHANGED bgFrame

\* performRefresh, success: c.cache.ttl = newCache.ttl
BgWriteTTL ==
    /\ bgPc = "w_ttl"
    /\ cache' = [cache EXCEPT !.ttl = bgNew.ttl]
    /\ bgPc' = "unlock"
    /\ UNCHANGED <<failureCount, rwWriter, rwReaders, bgNew, bgErr, bgResp, fetchCount,
                   wakeAt, initialized, refreshDone, now, hist>>
    /\ UNCHANGED bgFrame

\* performRefresh: c.cacheMutex.Unlock(), and the return to backgroundRefresh.
BgUnlock ==
    /\ bgPc = "unlock"
    /\ rwWriter' = FALSE
    /\ hist' = IF bgErr = "nil"
                THEN [committed |-> bgNew,
                      served |-> bgResp.body.keys,
                      everKids |-> hist.everKids \cup DOMAIN cache.keysByID,
                      failedRun |-> 0]
                ELSE [hist EXCEPT !.failedRun = @ + 1]
    /\ bgPc' = "signal"
    /\ UNCHANGED <<cache, failureCount, rwReaders, bgNew, bgErr, bgResp, fetchCount,
                   wakeAt, initialized, refreshDone, now>>
    /\ UNCHANGED bgFrame

\* A task that closes c.initialized only after an attempt that succeeded.
BgSignalOnSuccess ==
    /\ bgPc = "signal"
    /\ initialized' = (initialized \/ bgErr = "nil")
    /\ bgPc' = "compute"
    /\ UNCHANGED <<cache, failureCount, rwWriter, rwReaders, bgNew, bgErr, bgResp,
                   fetchCount, wakeAt, refreshDone, now, hist>>
    /\ UNCHANGED bgFrame

\* backgroundRefresh: close(c.initialized) after the first attempt.
BgSignal ==
    /\ bgPc = "signal"
    /\ initialized' = TRUE
    /\ bgPc' = "compute"
    /\ UNCHANGED <<cache, failureCount, rwWriter, rwReaders, bgNew, bgErr, bgResp,
                   fetchCount, wakeAt, refreshDone, now, hist>>
    /\ UNCHANGED bgFrame

\* backgroundRefresh: the wait duration, computed under the read lock.
BgComputeWait ==
    /\ bgPc = "compute"
    /\ ~rwWriter
    /\ \E d \in waitDurations : wakeAt' = now + d
    /\ bgPc' = "select"
    /\ UNCHANGED <<cache, failureCount, rwWriter, rwReaders, bgNew, bgErr, bgResp,
                   fetchCount, initialized, refreshDone, now, hist>>
    /\ UNCHANGED bgFrame

\* A loop that gives up once two attempts in a row have failed.
BgTimerFiresUntilFailedTwice ==
    /\ bgPc = "select"
    /\ now >= wakeAt
    /\ fetchCount < MaxFetches
    /\ failureCount < 2
    /\ bgPc' = "refresh"
    /\ UNCHANGED <<cache, failureCount, rwWriter, rwReaders, bgNew, bgErr, bgResp,
                   fetchCount, wakeAt, initialized, refreshDone, now, hist>>
    /\ UNCHANGED bgFrame

\* backgroundRefresh: select takes case <-time.After(waitDuration).
BgTimerFires ==
    /\ bgPc = "select"
    /\ now >= wakeAt
    /\ fetchCount < MaxFetches
    /\ bgPc' = "refresh"
    /\ UNCHANGED <<cache, failureCount, rwWriter, rwReaders, bgNew, bgErr, bgResp,
                   fetchCount, wakeAt, initialized, refreshDone, now, hist>>
    /\ UNCHANGED bgFrame

\* A select that sees the cancellation only while the timer has not fired.
BgCancelledBeforeTimer ==
    /\ bgPc = "select"
    /\ cancelled
    /\ now < wakeAt
    /\ refreshDone' = TRUE
    /\ bgPc' = "exited"
    /\ UNCHANGED <<cache, failureCount, rwWriter, rwReaders, bgNew, bgErr, bgResp,
                   fetchCount, wakeAt, initialized, now, hist>>
    /\ UNCHANGED bgFrame

\* backgroundRefresh: select takes case <-c.ctx.Done(); the deferred
\* close(c.refreshDone) runs.
BgCancelled ==
    /\ bgPc = "select"
    /\ cancelled
    /\ refreshDone' = TRUE
    /\ bgPc' = "exited"
    /\ UNCHANGED <<cache, failureCount, rwWriter, rwReaders, bgNew, bgErr, bgResp,
                   fetchCount, wakeAt, initialized, now, hist>>
    /\ UNCHANGED bgFrame

(***************************************************************************)
(* Close().                                                                *)
(***************************************************************************)
closeFrame == <<cache, failureCount, rwWriter, rwReaders, bgPc, bgNew, bgErr, bgResp,
                wakeAt, initialized, refreshDone, rdPc, rdKid, rdResult,
                fetchCount, now, hist, mwVars, onDemandVars, pureVars>>

\* Close: c.cancel()
CloseCancel ==
    /\ closePc = "none"
    /\ cancelled' = TRUE
    /\ closePc' = "waiting"
    /\ UNCHANGED closeFrame

\* A Close that returns without waiting for the task.
CloseReturnNoWait ==
    /\ closePc = "waiting"
    /\ closePc' = "returned"
    /\ UNCHANGED cancelled
    /\ UNCHANGED closeFrame

\* Close: <-c.refreshDone, and the return.
CloseReturn ==
    /\ closePc = "waiting"
    /\ refreshDone
    /\ closePc' = "returned"
    /\ UNCHANGED cancelled
    /\ UNCHANGED closeFrame

(***************************************************************************)
(* GetPublicKey(kid), called by request handlers.                          *)
(***************************************************************************)
rdFrame == <<cache, failureCount, rwWriter, bgPc, bgNew, bgErr, bgResp, wakeAt,
             initialized, cancelled, refreshDone, closePc, now, hist, mwVars,
             onDemandVars, pureVars>>

\* A GetPublicKey that reads without excluding the writer.
RdLockNoExclusion(r) ==
    /\ rdPc[r] = "idle"
    /\ rwReaders' = rwReaders + 1
    /\ \E kid \in Kids \cup {"k3"} : rdKid' = [rdKid EXCEPT ![r] = kid]
    /\ rdPc' = [rdPc EXCEPT ![r] = "locked"]
    /\ UNCHANGED <<rdResult, fetchCount>>
    /\ UNCHANGED rdFrame

\* GetPublicKey: c.cacheMutex.RLock()
RdLock(r) ==
    /\ rdPc[r] = "idle"
    /\ ~rwWriter
    /\ rwReaders' = rwReaders + 1
    /\ \E kid \in Kids \cup {"k3"} : rdKid' = [rdKid EXCEPT ![r] = kid]
    /\ rdPc' = [rdPc EXCEPT ![r] = "locked"]
    /\ UNCHANGED <<rdResult, fetchCount>>
    /\ UNCHANGED rdFrame

\* A GetPublicKey that asks the endpoint again when the kid is unknown.
RdLookupRefetch(r) ==
    /\ rdPc[r] = "locked"
    /\ rdResult' = [rdResult EXCEPT ![r] = GetPublicKeyValue(cache, rdKid[r])]
    /\ fetchCount' = IF rdKid[r] \in DOMAIN cache.keysByID
                     THEN fetchCount ELSE fetchCount + 1
    /\ rwReaders' = rwReaders - 1
    /\ rdPc' = [rdPc EXCEPT ![r] = "returning"]
    /\ UNCHANGED rdKid
    /\ UNCHANGED rdFrame

\* GetPublicKey: the map lookup and the deferred RUnlock.
RdLookup(r) ==
    /\ rdPc[r] = "locked"
    /\ rdResult' = [rdResult EXCEPT ![r] = GetPublicKeyValue(cache, rdKid[r])]
    /\ rwReaders' = rwReaders - 1
    /\ rdPc' = [rdPc EXCEPT ![r] = "returning"]
    /\ UNCHANGED <<rdKid, fetchCount>>
    /\ UNCHANGED rdFrame

\* GetPublicKey returns to its caller.
RdReturn(r) ==
    /\ rdPc[r] = "returning"
    /\ rdPc' = [rdPc EXCEPT ![r] = "idle"]
    /\ rdKid' = [rdKid EXCEPT ![r] = "k1"]
    /\ rdResult' = [rdResult EXCEPT ![r] = NoResult]
    /\ UNCHANGED <<rwReaders, fetchCount>>
    /\ UNCHANGED rdFrame

(***************************************************************************)
(* The passage of time while the loop waits: up to the timer's instant.     *)
(***************************************************************************)
Tick ==
    /\ bgPc = "select"
    /\ wakeAt > now
    /\ wakeAt <= MaxTime
    /\ now' = wakeAt
    /\ UNCHANGED <<cache, failureCount, rwWriter, rwReaders, bgPc, bgNew,
                   bgErr, bgResp, wakeAt, initialized, cancelled, refreshDone, closePc,
                   rdPc, rdKid, rdResult, fetchCount, hist, mwVars,
                   onDemandVars, pureVars>>

(***************************************************************************)
(* The on-demand JWKS client (internal/jwt/jwks.go): the cache is filled   *)
(* and refreshed by the callers of GetPublicKey; IsHealthy reads it.       *)
(***************************************************************************)
\* parseCacheControlMaxAge: the first max-age directive with a number above 0,
\* else 0.
RECURSIVE parseCacheControlMaxAgeFrom(_, _)
parseCacheControlMaxAgeFrom(directives, i) ==
    IF i > Len(directives) THEN 0
    ELSE IF directives[i].name = "max-age" /\ directives[i].atoi
                 /\ directives[i].val > 0
         THEN maxAgeDuration(directives[i])
    ELSE parseCacheControlMaxAgeFrom(directives, i + 1)

parseCacheControlMaxAge(cacheControl) ==
    IF cacheControl = <<>> THEN 0
    ELSE parseCacheControlMaxAgeFrom(cacheControl, 1)

\* time.Since(t) < d, the zero time being further back than any duration.
SinceLess(t, d) == t # 0 /\ clock - t < d

\* fetchJWKS(preserveOnError) for the endpoint's answer resp: the cache it
\* leaves and whether it returns an error.
fetchJWKS(preserveOnError, resp) ==
    LET c == jwksCache
        keep == preserveOnError /\ Cardinality(DOMAIN c.keysByID) > 0
        failed == [c EXCEPT !.lastFetchOK = FALSE, !.fetchedAt = clock]
        ttlFromHeader == parseCacheControlMaxAge(resp.cc)
        withTTL == IF ttlFromHeader > 0 THEN [c EXCEPT !.ttl = ttlFromHeader] ELSE c
    IN  IF resp.kind = "neterr" THEN [cache |-> failed, err |-> ~keep, ok |-> FALSE]
        ELSE IF resp.status # 200 THEN [cache |-> failed, err |-> ~keep, ok |-> FALSE]
        ELSE IF resp.kind = "readerr" THEN [cache |-> failed, err |-> ~keep, ok |-> FALSE]
        ELSE IF ~resp.body.json
             THEN [cache |-> [withTTL EXCEPT !.lastFetchOK = FALSE],
                   err |-> ~keep, ok |-> FALSE]
        ELSE [cache |-> [fetchedAt |-> clock,
                         keysByID |-> keysFrom(resp.body.keys, 1,
                                         IF preserveOnError THEN c.keysByID
                                         ELSE EmptyKeys),
                         ttl |-> withTTL.ttl,
                         lastFetchOK |-> TRUE,
                         refreshAfter |-> clock + ((withTTL.ttl * 4) \div 5)],
              err |-> FALSE, ok |-> TRUE]

\* IsHealthy: what a call returns in the current state.
IsHealthy ==
    IF jwksCache.fetchedAt = 0 THEN TRUE
    ELSE Cardinality(DOMAIN jwksCache.keysByID) > 0 /\ jwksCache.lastFetchOK

GetIdle == [pc |-> "idle", kid |-> "k1", preserve |-> FALSE]

\* History: a fetch has been attempted; a fetch has succeeded, when, and
\* whether a fetch has failed since.
NoFetchLog == [attempted |-> FALSE, succeeded |-> FALSE, okAt |-> 0,
               failedSince |-> FALSE]

LogFetch(r) ==
    IF r.ok
    THEN [attempted |-> TRUE, succeeded |-> TRUE, okAt |-> clock,
          failedSince |-> FALSE]
    ELSE [fetchLog EXCEPT !.attempted = TRUE, !.failedSince = fetchLog.succeeded]

\* NewJWKSClient(jwksURL, cacheTTL)
OnDemandInit ==
    /\ jwksCache = [fetchedAt |-> 0, keysByID |-> EmptyKeys, ttl |-> FallbackTTL,
                    lastFetchOK |-> FALSE, refreshAfter |-> 0]
    /\ lastRefreshAttempt = 0
    /\ clock = 1
    /\ getPc = GetIdle
    /\ refreshSpawned = FALSE
    /\ fetchLog = NoFetchLog

\* GetPublicKey(kid) up to the end of fetchJWKSWithCache's read section: the
\* cache is valid (and a background refresh is started when due), or a
\* fetch is needed.
GetStart ==
    /\ getPc.pc = "idle"
    /\ \E kid \in Kids :
          IF /\ SinceLess(jwksCache.fetchedAt, jwksCache.ttl)
             /\ Cardinality(DOMAIN jwksCache.keysByID) > 0
          THEN /\ getPc' = [pc |-> "lookup", kid |-> kid, preserve |-> FALSE]
               /\ refreshSpawned' = (refreshSpawned \/ clock > jwksCache.refreshAfter)
          ELSE /\ getPc' = [pc |-> "fetch", kid |-> kid,
                            preserve |-> Cardinality(DOMAIN jwksCache.keysByID) > 0]
               /\ UNCHANGED refreshSpawned
    /\ UNCHANGED <<jwksCache, lastRefreshAttempt, clock, fetchLog>>
    /\ UNCHANGED <<clientVars, mwVars, pureVars>>

\* fetchJWKSWithCache's call of fetchJWKS(hasExistingKeys); on error
\* GetPublicKey returns.
GetFetch ==
    /\ getPc.pc = "fetch"
    /\ \E resp \in Responses :
          LET r == fetchJWKS(getPc.preserve, resp)
          IN  /\ jwksCache' = r.cache
              /\ fetchLog' = LogFetch(r)
              /\ getPc' = IF r.err THEN GetIdle ELSE [getPc EXCEPT !.pc = "lookup"]
    /\ UNCHANGED <<lastRefreshAttempt, clock, refreshSpawned>>
    /\ UNCHANGED <<clientVars, mwVars, pureVars>>

\* The lookup of kid, tryRefreshForUnknownKey when it is unknown, and the
\* return of GetPublicKey.
GetLookup ==
    /\ getPc.pc = "lookup"
    /\ IF getPc.kid \in DOMAIN jwksCache.keysByID
          \/ SinceLess(lastRefreshAttempt, MinRefreshIntervalSec)
       THEN UNCHANGED <<jwksCache, lastRefreshAttempt, fetchLog>>
       ELSE /\ lastRefreshAttempt' = clock
            /\ \E resp \in Responses :
                  LET r == fetchJWKS(TRUE, resp)
                  IN  /\ jwksCache' = r.cache
                      /\ fetchLog' = LogFetch(r)
    /\ getPc' = GetIdle
    /\ UNCHANGED <<clock, refreshSpawned>>
    /\ UNCHANGED <<clientVars, mwVars, pureVars>>

\* backgroundRefresh, the goroutine started by fetchJWKSWithCache.
backgroundRefresh ==
    /\ refreshSpawned
    /\ refreshSpawned' = FALSE
    /\ IF SinceLess(lastRefreshAttempt, MinRefreshIntervalSec)
       THEN UNCHANGED <<jwksCache, lastRefreshAttempt, fetchLog>>
       ELSE /\ lastRefreshAttempt' = clock
            /\ \E resp \in Responses :
                  LET r == fetchJWKS(TRUE, resp)
                  IN  /\ jwksCache' = r.cache
                      /\ fetchLog' = LogFetch(r)
    /\ UNCHANGED <<clock, getPc>>
    /\ UNCHANGED <<clientVars, mwVars, pureVars>>

\* Time passes: a few seconds (within TickWindow of the start or of the end
\* of a long wait), or the long wait of the minimum refresh interval.
ClockTick ==
    /\ \E d \in {9, MinRefreshIntervalSec} :
          /\ clock + d <= MaxClock
          /\ d = 9 => (clock % MinRefreshIntervalSec) + d <= TickWindow
          /\ clock' = clock + d
    /\ UNCHANGED <<jwksCache, lastRefreshAttempt, getPc, refreshSpawned, fetchLog>>
    /\ UNCHANGED <<clientVars, mwVars, pureVars>>

(***************************************************************************)
(* Package middleware: the requests, the tokens and the configurations.    *)
(***************************************************************************)
EmptyParams == [p \in {} |-> ""]

NoCtx == [has |-> FALSE, params |-> EmptyParams]

\* A GetMiddlewareParams that always starts from a new map.
GetMiddlewareParamsFresh(c) == EmptyParams

\* GetMiddlewareParams: the map stored in the context, or a new empty map.
GetMiddlewareParams(c) == IF c.has THEN c.params ELSE EmptyParams

\* SetMiddlewareParams: the context holding params.
SetMiddlewareParams(c, params) == [has |-> TRUE, params |-> params]

\* params with name set to value.
WithParam(params, name, value) ==
    [p \in (DOMAIN params) \cup {name} |-> IF p = name THEN value ELSE params[p]]

Token(wellFormed, alg, hasKid, kid, signedBy, expired, claims) ==
    [wellFormed |-> wellFormed, alg |-> alg, hasKid |-> hasKid, kid |-> kid,
     signedBy |-> signedBy, expired |-> expired, claims |-> claims]

ClaimsFull == [c \in {"sub", "role", "iss"} |->
                  IF c = "sub" THEN "5" ELSE IF c = "role" THEN "admin" ELSE "iss1"]
ClaimsSub == [c \in {"sub"} |-> "2"]
ClaimsEmail == [c \in {"sub", "email", "iss"} |->
                  IF c = "sub" THEN "5" ELSE IF c = "email" THEN "a@x" ELSE "iss1"]

ClaimsAud == [c \in {"sub", "role", "iss", "aud"} |->
                 IF c = "sub" THEN "5" ELSE IF c = "role" THEN "admin"
                 ELSE IF c = "iss" THEN "iss1" ELSE "aud1"]
ClaimsAudOther == [ClaimsAud EXCEPT !["aud"] = "aud2"]
\* iss and aud given as JSON arrays of one string.
ClaimsListed == [ClaimsAud EXCEPT !["iss"] = "[iss1]", !["aud"] = "[aud1]"]

\* The claim values that are not JSON strings.
NonStrings == {"[iss1]", "[aud1]"}

\* claims[name].(string) succeeds.
IsString(v) == v \notin NonStrings

\* The one element of an array value; a string is itself.
ElementOf(v) ==
    IF v = "[iss1]" THEN "iss1" ELSE IF v = "[aud1]" THEN "aud1" ELSE v

NoToken == Token(FALSE, "", FALSE, "", "", FALSE, EmptyParams)

Tokens ==
    { Token(TRUE, "RS256", TRUE, "k1", "modA", FALSE, ClaimsFull),
      Token(TRUE, "RS256", TRUE, "k1", "modA", FALSE, ClaimsSub),
      Token(TRUE, "RS256", TRUE, "k1", "modA", FALSE, ClaimsEmail),
      Token(TRUE, "RS256", TRUE, "k1", "modA", FALSE, ClaimsAud),
      Token(TRUE, "RS256", TRUE, "k1", "modA", FALSE, ClaimsAudOther),
      Token(TRUE, "RS256", TRUE, "k1", "modA", FALSE, ClaimsListed),
      Token(FALSE, "", FALSE, "", "", FALSE, ClaimsFull),
      Token(TRUE, "HS256", TRUE, "k1", "modA", FALSE, ClaimsFull),
      Token(TRUE, "RS256", FALSE, "", "modA", FALSE, ClaimsFull),
      Token(TRUE, "RS256", TRUE, "k9", "modA", FALSE, ClaimsFull),
      Token(TRUE, "RS256", TRUE, "k1", "modX", FALSE, ClaimsFull),
      Token(TRUE, "RS256", TRUE, "k1", "modA", TRUE, ClaimsFull) }

\* An Authorization header: absent, or a scheme prefix followed by the rest;
\* blank tells whether the rest is empty after strings.TrimSpace.
AuthHeader(present, scheme, blank, token) ==
    [present |-> present, scheme |-> scheme, blank |-> blank, token |-> token]

AuthHeaders ==
    { AuthHeader(FALSE, "", TRUE, NoToken),
      AuthHeader(TRUE, "Basic ", FALSE, NoToken),
      AuthHeader(TRUE, "Bearer ", TRUE, NoToken) }
    \cup { AuthHeader(TRUE, "Bearer ", FALSE, t) : t \in Tokens }

\* A request: its Authorization header and its other headers ("" when absent).
Requests ==
    [auth : AuthHeaders, headers : [{"X-User-ID", "X-Tenant-ID"} -> {"", "1"}]]

NoRequest == [auth |-> AuthHeader(FALSE, "", TRUE, NoToken),
              headers |-> [h \in {"X-User-ID", "X-Tenant-ID"} |-> ""]]

MapSubRole == [c \in {"sub", "role"} |->
                  IF c = "sub" THEN "user_id" ELSE "user_role"]
MapSubEmail == [c \in {"sub", "email"} |-> "user_id"]

BearerJWKS(required, claimsMapping, issuer) ==
    [type |-> "bearer-jwks", required |-> required, header |-> "",
     parameter |-> "", claimsMapping |-> claimsMapping, issuer |-> issuer,
     audience |-> ""]

HTTPHeader(header, parameter, required) ==
    [type |-> "http-header", required |-> required, header |-> header,
     parameter |-> parameter, claimsMapping |-> EmptyParams, issuer |-> "",
     audience |-> ""]

\* cfg with audience configured.
WithAudience(cfg, audience) == [cfg EXCEPT !.audience = audience]

\* The configured chains.
Chains ==
    { <<BearerJWKS(r, MapSubRole, "")>> : r \in BOOLEAN }
    \cup { <<WithAudience(BearerJWKS(r, MapSubRole, ""), "aud1")>> : r \in BOOLEAN }
    \cup { <<WithAudience(BearerJWKS(TRUE, MapSubRole, "iss1"), "aud1")>> }
    \cup { <<BearerJWKS(r, MapSubEmail, "iss1")>> : r \in BOOLEAN }
    \cup { <<BearerJWKS(r, MapSubRole, ""),
             HTTPHeader("X-User-ID", "user_id", FALSE)>> : r \in BOOLEAN }
    \cup { <<HTTPHeader("X-User-ID", "user_id", r),
             BearerJWKS(FALSE, MapSubRole, "")>> : r \in BOOLEAN }
    \cup { <<HTTPHeader("X-Tenant-ID", "tenant_id", FALSE),
             BearerJWKS(TRUE, MapSubRole, "iss1"),
             HTTPHeader("X-User-ID", "user_id", FALSE)>> }

\* What the JWKS endpoint can serve: nothing (it is down), or a key set.
DownKeys == [k \in {"down"} |-> NoKey]
ServedKeySets == { DownKeys, [k \in {"k1"} |-> "modA"], [k \in {"k2"} |-> "certB"] }

(***************************************************************************)
(* Chain.Wrap: a wrapped handler is the sequence of the chain indices it   *)
(* runs, outermost first, ending with 0 for the final handler.             *)
(***************************************************************************)
FinalHandler == <<0>>

\* c[i].Wrap(handler)
MiddlewareWrap(i, handler) == <<i>> \o handler

RECURSIVE WrapDownFrom(_, _)
WrapDownFrom(i, handler) ==
    IF i < 1 THEN handler
    ELSE WrapDownFrom(i - 1, MiddlewareWrap(i, handler))

RECURSIVE WrapUpFrom(_, _, _)
WrapUpFrom(i, n, handler) ==
    IF i > n THEN handler
    ELSE WrapUpFrom(i + 1, n, MiddlewareWrap(i, handler))

\* A Chain.Wrap that wraps in configuration order.
ChainWrapForward(c, handler) == WrapUpFrom(1, Len(c), handler)

\* Chain.Wrap: for i := len(c) - 1; i >= 0; i-- { handler = c[i].Wrap(handler) }
ChainWrap(c, handler) == WrapDownFrom(Len(c), handler)

(***************************************************************************)
(* BearerJWKSMiddleware.                                                   *)
(***************************************************************************)
\* getPublicKey: <<err, key, keyCache after the call, fetches made>>.
getPublicKey(kid) ==
    IF kid \in DOMAIN keyCache
    THEN [err |-> FALSE, key |-> keyCache[kid], cache |-> keyCache, fetches |-> 0]
    ELSE IF jwksServed = DownKeys \/ kid \notin DOMAIN jwksServed
    THEN [err |-> TRUE, key |-> NoKey, cache |-> keyCache, fetches |-> 1]
    ELSE [err |-> FALSE, key |-> jwksServed[kid],
          cache |-> WithParam(keyCache, kid, jwksServed[kid]), fetches |-> 1]

\* A validateToken that takes aud as RFC 7519 allows it, a string or an
\* array of strings, and accepts an array holding the audience.
validateTokenAudienceList(cfg, token) ==
    LET noLookup == [err |-> TRUE, key |-> NoKey, cache |-> keyCache, fetches |-> 0]
        fail(k) == [err |-> TRUE, claims |-> EmptyParams, cache |-> k.cache,
                    fetches |-> k.fetches]
    IN  IF ~token.wellFormed THEN fail(noLookup)
        ELSE IF token.alg # "RS256" THEN fail(noLookup)
        ELSE IF ~token.hasKid THEN fail(noLookup)
        ELSE LET k == getPublicKey(token.kid)
             IN  IF k.err THEN fail(k)
                 ELSE IF k.key # token.signedBy THEN fail(k)
                 ELSE IF token.expired THEN fail(k)
                 ELSE IF cfg.issuer # ""
                         /\ ("iss" \notin DOMAIN token.claims
                             \/ ~IsString(token.claims["iss"])
                             \/ token.claims["iss"] # cfg.issuer) THEN fail(k)
                 ELSE IF cfg.audience # ""
                         /\ ("aud" \notin DOMAIN token.claims
                             \/ ElementOf(token.claims["aud"]) # cfg.audience)
                      THEN fail(k)
                 ELSE [err |-> FALSE, claims |-> token.claims, cache |-> k.cache,
                       fetches |-> k.fetches]

\* validateToken: err, the claims, and what getPublicKey did.
validateToken(cfg, token) ==
    LET noLookup == [err |-> TRUE, key |-> NoKey, cache |-> keyCache, fetches |-> 0]
        fail(k) == [err |-> TRUE, claims |-> EmptyParams, cache |-> k.cache,
                    fetches |-> k.fetches]
    IN  IF ~token.wellFormed THEN fail(noLookup)
        ELSE IF token.alg # "RS256" THEN fail(noLookup)
        ELSE IF ~token.hasKid THEN fail(noLookup)
        ELSE LET k == getPublicKey(token.kid)
             IN  IF k.err THEN fail(k)
                 ELSE IF k.key # token.signedBy THEN fail(k)
                 ELSE IF token.expired THEN fail(k)
                 ELSE IF cfg.issuer # ""
                         /\ ("iss" \notin DOMAIN token.claims
                             \/ ~IsString(token.claims["iss"])
                             \/ token.claims["iss"] # cfg.issuer) THEN fail(k)
                 ELSE IF cfg.audience # ""
                         /\ ("aud" \notin DOMAIN token.claims
                             \/ ~IsString(token.claims["aud"])
                             \/ token.claims["aud"] # cfg.audience) THEN fail(k)
                 ELSE [err |-> FALSE, claims |-> token.claims, cache |-> k.cache,
                       fetches |-> k.fetches]

\* The claims of the mapping that the token carries.
PresentClaims(cfg, claims) == (DOMAIN cfg.claimsMapping) \cap (DOMAIN claims)

\* The maps the loop over m.config.ClaimsMapping can leave in params: Go
\* ranges over a map in an unspecified order, so a parameter that several
\* present claims are mapped to ends with the value of any one of them.
MappedParams(cfg, claims, params) ==
    LET present == PresentClaims(cfg, claims)
        targets == { cfg.claimsMapping[c] : c \in present }
    IN  { [p \in (DOMAIN params) \cup targets |->
              IF p \in targets THEN pick[p] ELSE params[p]] :
          pick \in { f \in [targets -> { claims[c] : c \in present }] :
                       \A p \in targets :
                           \E c \in present :
                               cfg.claimsMapping[c] = p /\ f[p] = claims[c] } }

\* Whether the Wrap handler goes past the header checks to validateToken.
ReachesValidation(a) == a.present /\ a.scheme = "Bearer " /\ ~a.blank

\* Whether the request fails authentication under cfg.
AuthFails(cfg, a) == ~ReachesValidation(a) \/ validateToken(cfg, a.token).err

\* A Wrap handler that lets an empty bearer token through when required.
WrapOutcomeEmptyPasses(cfg, a) ==
    IF ~a.present THEN (IF cfg.required THEN "401" ELSE "next")
    ELSE IF a.scheme # "Bearer " THEN (IF cfg.required THEN "401" ELSE "next")
    ELSE IF a.blank THEN "next"
    ELSE IF validateToken(cfg, a.token).err
         THEN (IF cfg.required THEN "401" ELSE "next")
    ELSE "claims"

\* A Wrap handler that rejects an invalid token even when not required.
WrapOutcomeInvalidRejected(cfg, a) ==
    IF ~a.present THEN (IF cfg.required THEN "401" ELSE "next")
    ELSE IF a.scheme # "Bearer " THEN (IF cfg.required THEN "401" ELSE "next")
    ELSE IF a.blank THEN (IF cfg.required THEN "401" ELSE "next")
    ELSE IF validateToken(cfg, a.token).err THEN "401"
    ELSE "claims"

\* The branch the Wrap handler takes: "401" (http.Error and return), "next"
\* (next.ServeHTTP(w, r) with the request as it came) or "claims" (the
\* claims are mapped, then next.ServeHTTP).
WrapOutcome(cfg, a) ==
    IF ~a.present THEN (IF cfg.required THEN "401" ELSE "next")
    ELSE IF a.scheme # "Bearer " THEN (IF cfg.required THEN "401" ELSE "next")
    ELSE IF a.blank THEN (IF cfg.required THEN "401" ELSE "next")
    ELSE IF validateToken(cfg, a.token).err
         THEN (IF cfg.required THEN "401" ELSE "next")
    ELSE "claims"

(***************************************************************************)
(* Serving one request through the wrapped handler.                        *)
(***************************************************************************)
Handler == ChainWrap(chain, FinalHandler)

MWIdle ==
    /\ reqPc = "idle"
    /\ req = NoRequest
    /\ ctx = NoCtx
    /\ pos = 0
    /\ invoked = <<>>
    /\ status = 0
    /\ captured = EmptyParams
    /\ writes = <<>>
    /\ mwFetches = 0

\* The client alone: no middleware is configured.
NoMiddleware ==
    /\ chain = <<>>
    /\ jwksServed = DownKeys
    /\ keyCache = EmptyKeys
    /\ MWIdle

Init ==
    /\ ClientInit
    /\ NoMiddleware
    /\ OnDemandInit
    /\ NoCall

\* The middleware chain of any of the configurations, as NewServer builds it.
InitMW ==
    /\ ClientInit
    /\ chain \in Chains
    /\ jwksServed \in ServedKeySets
    /\ keyCache = EmptyKeys
    /\ MWIdle
    /\ OnDemandInit
    /\ NoCall

\* A request arrives: the server calls the wrapped handler.
StartRequest ==
    /\ reqPc = "idle"
    /\ \E r \in Requests : req' = r
    /\ reqPc' = "running"
    /\ pos' = 1
    /\ invoked' = <<Handler[1]>>
    /\ UNCHANGED <<chain, jwksServed, keyCache, mwFetches, ctx, status,
                   captured, writes>>
    /\ UNCHANGED <<clientVars, onDemandVars, pureVars>>

\* An http.Error(w, ..., code) that is not followed by return.
RejectAndContinue(code) ==
    /\ status' = code
    /\ pos' = pos + 1
    /\ invoked' = Append(invoked, Handler[pos + 1])
    /\ UNCHANGED <<ctx, reqPc, captured, writes>>

\* http.Error(w, ..., code) and return: next is not called.
Reject(code) ==
    /\ status' = code
    /\ reqPc' = "done"
    /\ UNCHANGED <<ctx, pos, invoked, captured, writes>>

\* next.ServeHTTP(w, r) with the request context c.
CallNext(c) ==
    /\ ctx' = c
    /\ pos' = pos + 1
    /\ invoked' = Append(invoked, Handler[pos + 1])
    /\ UNCHANGED <<status, reqPc, captured>>

\* The handler returned by BearerJWKSMiddleware.Wrap.
BearerServe ==
    /\ reqPc = "running"
    /\ Handler[pos] # 0
    /\ chain[Handler[pos]].type = "bearer-jwks"
    /\ LET cfg == chain[Handler[pos]]
           a == req.auth
           v == validateToken(cfg, a.token)
           out == WrapOutcome(cfg, a)
       IN  /\ keyCache' = IF ReachesValidation(a) THEN v.cache ELSE keyCache
           /\ mwFetches' = IF ReachesValidation(a)
                           THEN mwFetches + v.fetches ELSE mwFetches
           /\ \/ /\ out = "401"
                 /\ Reject(401)
              \/ /\ out = "next"
                 /\ CallNext(ctx)
                 /\ UNCHANGED writes
              \/ /\ out = "claims"
                 /\ \E params \in MappedParams(cfg, v.claims,
                                               GetMiddlewareParams(ctx)) :
                       /\ CallNext(SetMiddlewareParams(ctx, params))
                       /\ writes' = Append(writes,
                              [by |-> Handler[pos],
                               params |-> [p \in { cfg.claimsMapping[c] :
                                               c \in PresentClaims(cfg, v.claims) }
                                           |-> params[p]]])
    /\ UNCHANGED <<chain, jwksServed, req>>
    /\ UNCHANGED <<clientVars, onDemandVars, pureVars>>

\* The header middleware as a handler of the chain, with the logic of
\* HTTPHeaderMiddleware.Process: a missing required header is an error and
\* is answered 400 without calling next, a missing optional header leaves
\* the parameters alone, a header that is there sets its parameter.
HeaderServe ==
    /\ reqPc = "running"
    /\ Handler[pos] # 0
    /\ chain[Handler[pos]].type = "http-header"
    /\ LET cfg == chain[Handler[pos]]
           headerValue == req.headers[cfg.header]
       IN  IF headerValue = ""
           THEN IF cfg.required
                THEN Reject(400)
                ELSE CallNext(ctx) /\ UNCHANGED writes
           ELSE /\ CallNext(SetMiddlewareParams(ctx,
                      WithParam(GetMiddlewareParams(ctx), cfg.parameter,
                                headerValue)))
                /\ writes' = Append(writes,
                       [by |-> Handler[pos],
                        params |-> [p \in {cfg.parameter} |-> headerValue]])
    /\ UNCHANGED <<chain, jwksServed, keyCache, mwFetches, req>>
    /\ UNCHANGED <<clientVars, onDemandVars, pureVars>>

\* The final handler (handleQuery) reads the middleware parameters.
FinalServe ==
    /\ reqPc = "running"
    /\ Handler[pos] = 0
    /\ captured' = GetMiddlewareParams(ctx)
    /\ status' = 200
    /\ reqPc' = "done"
    /\ UNCHANGED <<chain, jwksServed, keyCache, mwFetches, req, ctx, pos,
                   invoked, writes>>
    /\ UNCHANGED <<clientVars, onDemandVars, pureVars>>

\* The response is sent; the server is ready for the next request.
EndRequest ==
    /\ reqPc = "done"
    /\ reqPc' = "idle"
    /\ req' = NoRequest
    /\ ctx' = NoCtx
    /\ pos' = 0
    /\ invoked' = <<>>
    /\ status' = 0
    /\ captured' = EmptyParams
    /\ writes' = <<>>
    /\ mwFetches' = 0
    /\ UNCHANGED <<chain, jwksServed, keyCache>>
    /\ UNCHANGED <<clientVars, onDemandVars, pureVars>>

\* The JWKS endpoint goes down, comes back or rotates its keys.
EndpointChange ==
    /\ reqPc = "idle"
    /\ \E s \in ServedKeySets : s # jwksServed /\ jwksServed' = s
    /\ UNCHANGED <<chain, keyCache, mwFetches, reqPc, req, ctx, pos, invoked,
                   status, captured, writes>>
    /\ UNCHANGED <<clientVars, onDemandVars, pureVars>>

Next ==
    \/ BgStartFetch
    \/ BgFetchReturn
    \/ BgLock
    \/ BgWriteFailure
    \/ BgWriteCount
    \/ BgWriteFetchedAt
    \/ BgWriteKeys
    \/ BgWriteTTL
    \/ BgUnlock
    \/ BgSignal
    \/ BgComputeWait
    \/ BgTimerFires
    \/ BgCancelled
    \/ CloseCancel
    \/ CloseReturn
    \/ \E r \in Readers : RdLock(r)
    \/ \E r \in Readers : RdLookup(r)
    \/ \E r \in Readers : RdReturn(r)
    \/ Tick

Spec == Init /\ [][Next]_vars

\* The steps of the refresh task that wait for nothing but the scheduler.
BgStep ==
    \/ BgStartFetch
    \/ BgFetchReturn
    \/ BgWriteFailure
    \/ BgWriteCount
    \/ BgWriteFetchedAt
    \/ BgWriteKeys
    \/ BgWriteTTL
    \/ BgUnlock
    \/ BgSignal
    \/ BgComputeWait
    \/ BgTimerFires
    \/ BgCancelled

\* The goroutines run and time passes: the task takes its next step, the
\* HTTP call returns (the client's timeout), a caller of GetPublicKey that
\* holds the read lock releases it, and Lock() gets the lock once the
\* readers are gone (a waiting writer keeps new readers out).
Fairness ==
    /\ WF_vars(BgStep)
    /\ SF_vars(BgLock)
    /\ WF_vars(Tick)
    /\ \A r \in Readers : WF_vars(RdLookup(r) \/ RdReturn(r))

SpecLive == Init /\ [][Next]_vars /\ Fairness

\* Close's caller runs too, and a select whose two cases are both ready
\* chooses between them at random, so the cancellation case is not passed
\* over for ever.
CloseFairness ==
    /\ Fairness
    /\ SF_vars(BgCancelled)
    /\ WF_vars(CloseReturn)

SpecCloseLive == Init /\ [][Next]_vars /\ CloseFairness

NextMW ==
    \/ StartRequest
    \/ BearerServe
    \/ HeaderServe
    \/ FinalServe
    \/ EndRequest
    \/ EndpointChange

SpecMW == InitMW /\ [][NextMW]_vars

(***************************************************************************)
(* The health surface of the bearer middleware over its JWKS client.       *)
(* callArg is the enable_health_check setting, a *bool: not set, or set to *)
(* a value.                                                                *)
(***************************************************************************)
HealthSettings == {[set |-> FALSE, value |-> FALSE]}
                  \cup [set : {TRUE}, value : BOOLEAN]

\* A HealthCheckEnabled that is false when nothing is configured.
HealthCheckEnabledOptIn(setting) == setting.set /\ setting.value

\* HealthCheckEnabled: the configured value, true when nothing is configured.
HealthCheckEnabled(setting) == IF setting.set THEN setting.value ELSE TRUE

\* The middleware's IsHealthy: its JWKS client's.
MiddlewareIsHealthy == IsHealthy

InitHealth ==
    /\ ClientInit
    /\ NoMiddleware
    /\ OnDemandInit
    /\ callArg \in HealthSettings
    /\ callOut = [done |-> FALSE]

\* The health endpoint asks the middleware.
HealthProbe ==
    /\ callOut' = [done |-> TRUE, enabled |-> HealthCheckEnabled(callArg),
                   healthy |-> MiddlewareIsHealthy,
                   client |-> IsHealthy]
    /\ UNCHANGED callArg
    /\ UNCHANGED <<clientVars, mwVars, onDemandVars>>

NextOnDemand ==
    \/ GetStart
    \/ GetFetch
    \/ GetLookup
    \/ backgroundRefresh
    \/ ClockTick

SpecOnDemand == Init /\ [][NextOnDemand]_vars

(***************************************************************************)
(* Server.handleHealth.  callArg is the request's method, what             *)
(* s.executor.IsHealthy() returns and, for each middleware of the chain,   *)
(* whether its health check is enabled and whether it is healthy.          *)
(***************************************************************************)
MiddlewareHealths == [enabled : BOOLEAN, healthy : BOOLEAN]

HealthRequests ==
    [method : {"GET", "POST"},
     dbHealthy : BOOLEAN,
     chain : UNION { [1 .. k -> MiddlewareHealths] : k \in 0 .. MaxHealthChain }]

\* handleHealth: the status code, the "status" field and the sections of
\* the response other than "database".
handleHealth(r) ==
    IF r.method # "GET"
    THEN [done |-> TRUE, code |-> 405, status |-> "", middleware |-> {}]
    ELSE IF r.dbHealthy
    THEN [done |-> TRUE, code |-> 200, status |-> "healthy", middleware |-> {}]
    ELSE [done |-> TRUE, code |-> 503, status |-> "unhealthy", middleware |-> {}]

InitHealthEndpoint ==
    /\ ClientInit
    /\ NoMiddleware
    /\ OnDemandInit
    /\ callArg \in HealthRequests
    /\ callOut = [done |-> FALSE]

HealthRequest ==
    /\ ~callOut.done
    /\ callOut' = handleHealth(callArg)
    /\ UNCHANGED callArg
    /\ UNCHANGED <<clientVars, mwVars, onDemandVars>>

NextHealthEndpoint == HealthRequest

SpecHealthEndpoint == InitHealthEndpoint /\ [][NextHealthEndpoint]_vars

(***************************************************************************)
(* Server.handleQuery, the final handler of the chain.  callArg is the     *)
(* request as the chain hands it over: its method, whether its path names  *)
(* a configured query, that query's params, the JSON body and the context. *)
(***************************************************************************)
ParamNames == {"id", "user_id"}

\* The maps that give value v to some of the names.
ParamMaps(v) == UNION { [s -> {v}] : s \in SUBSET ParamNames }

QueryRequests ==
    [method : {"POST", "GET"},
     exists : BOOLEAN,
     params : SUBSET ParamNames,
     validJSON : BOOLEAN,
     body : ParamMaps("from-body"),
     ctx : {NoCtx} \cup { [has |-> TRUE, params |-> p] : p \in ParamMaps("from-mw") }]

\* filterBodyParametersByYAMLDefinition
filterBodyParametersByYAMLDefinition(queryParams, allBodyParams) ==
    [n \in (DOMAIN allBodyParams) \cap queryParams |-> allBodyParams[n]]

\* A merge that copies the body parameters last.
mergeParamsBodyLast(bodyParams, middlewareParams) ==
    [n \in (DOMAIN bodyParams) \cup (DOMAIN middlewareParams) |->
        IF n \in DOMAIN bodyParams THEN bodyParams[n] ELSE middlewareParams[n]]

\* allParams: the body parameters are copied, then the middleware's.
mergeParams(bodyParams, middlewareParams) ==
    [n \in (DOMAIN bodyParams) \cup (DOMAIN middlewareParams) |->
        IF n \in DOMAIN middlewareParams THEN middlewareParams[n]
        ELSE bodyParams[n]]

\* handleQuery up to s.executor.Execute(queryConfig, allParams).
handleQuery(r) ==
    LET refuse(code) == [done |-> TRUE, code |-> code, executed |-> FALSE,
                         allParams |-> EmptyParams]
    IN  IF r.method # "POST" THEN refuse(405)
        ELSE IF ~r.exists THEN refuse(404)
        ELSE IF ~r.validJSON THEN refuse(400)
        ELSE [done |-> TRUE, code |-> 200, executed |-> TRUE,
              allParams |->
                  mergeParams(filterBodyParametersByYAMLDefinition(r.params, r.body),
                              GetMiddlewareParams(r.ctx))]

InitQuery ==
    /\ ClientInit
    /\ NoMiddleware
    /\ OnDemandInit
    /\ callArg \in QueryRequests
    /\ callOut = [done |-> FALSE]

QueryRequest ==
    /\ ~callOut.done
    /\ callOut' = handleQuery(callArg)
    /\ UNCHANGED callArg
    /\ UNCHANGED <<clientVars, mwVars, onDemandVars>>

NextQuery == QueryRequest

SpecQuery == InitQuery /\ [][NextQuery]_vars

NextHealth ==
    \/ GetStart
    \/ GetFetch
    \/ GetLookup
    \/ HealthProbe

SpecHealth == InitHealth /\ [][NextHealth]_vars

(***************************************************************************)
(* calculateBackoffDuration called by the refresh loop after n failures in *)
(* a row.                                                                  *)
(***************************************************************************)
FailureCounts == 0 .. MaxFailureCount

InitBackoff ==
    /\ ClientInit
    /\ NoMiddleware
    /\ OnDemandInit
    /\ callArg \in FailureCounts
    /\ callOut = [done |-> FALSE]

\* The loop calls calculateBackoffDuration with c.failureCount = callArg.
BackoffCall ==
    /\ ~callOut.done
    /\ \E d \in calculateBackoffDuration(callArg) :
          callOut' = [done |-> TRUE, val |-> d]
    /\ UNCHANGED callArg
    /\ UNCHANGED <<clientVars, mwVars, onDemandVars>>

\* The refresh that follows fails: c.failureCount++.
BackoffFailure ==
    /\ callOut.done
    /\ callArg < MaxFailureCount
    /\ callArg' = callArg + 1
    /\ callOut' = [done |-> FALSE]
    /\ UNCHANGED <<clientVars, mwVars, onDemandVars>>

NextBackoff ==
    \/ BackoffCall
    \/ BackoffFailure

SpecBackoff == InitBackoff /\ [][NextBackoff]_vars

(***************************************************************************)
(* A successful fetch of a response with a given Cache-Control header.     *)
(***************************************************************************)
\* The directives a header is made of.
DirectiveAlphabet ==
    { Directive("public", FALSE, 0),
      Directive("max-age", TRUE, MaxAgeSec),
      Directive("max-age", TRUE, 0),
      Directive("max-age", TRUE, -5),
      Directive("max-age", FALSE, 0),
      BeyondMaxAge(1),
      Directive("no-cache", FALSE, 0),
      Directive("no-store", FALSE, 0) }

\* The headers: absent, or up to MaxDirectives directives.
CacheControlHeaders ==
    UNION { [1 .. k -> DirectiveAlphabet] : k \in 0 .. MaxDirectives }

OneKeyBody == [json |-> TRUE, keys |-> <<JWK("RSA", "k1", <<>>, "modA")>>]

InitCacheControl ==
    /\ ClientInit
    /\ NoMiddleware
    /\ OnDemandInit
    /\ callArg \in CacheControlHeaders
    /\ callOut = [done |-> FALSE]

\* fetchJWKSFromServer receives 200, the header callArg and a key.
CacheControlFetch ==
    /\ ~callOut.done
    /\ LET resp == [kind |-> "ok", status |-> 200, cc |-> callArg,
                    body |-> OneKeyBody]
           r == fetchJWKSFromServer(resp, now)
       IN  callOut' = [done |-> TRUE, err |-> r[2], ttl |-> r[1].ttl]
    /\ UNCHANGED callArg
    /\ UNCHANGED <<clientVars, mwVars, onDemandVars>>

NextCacheControl == CacheControlFetch

SpecCacheControl == InitCacheControl /\ [][NextCacheControl]_vars

(***************************************************************************)
(* The middleware factory (factory.go).                                    *)
(***************************************************************************)
\* A key that the configuration map does not have.
Absent == "<absent>"

NoMapping == [present |-> FALSE, map |-> EmptyParams]
Mapping(f) == [present |-> TRUE, map |-> f]

\* yaml.Marshal then yaml.Unmarshal into the config struct: a missing key
\* leaves the field at its zero value.
UnmarshalString(v) == IF v = Absent THEN "" ELSE v
UnmarshalMap(v) == IF v.present THEN v.map ELSE EmptyParams

\* The entries of server.middleware in the configuration file.
MiddlewareConfigs ==
    [type : {"http-header"}, header : {Absent, "", "X-User-ID"},
     parameter : {Absent, "user_id"}, jwks_url : {Absent},
     claims_mapping : {NoMapping}]
    \cup [type : {"jwks-verification"}, header : {Absent}, parameter : {Absent},
          jwks_url : {Absent, "", "http://idp/jwks.json"},
          claims_mapping : {NoMapping, Mapping(EmptyParams), Mapping(MapSubRole)}]
    \cup [type : {"unknown"}, header : {Absent}, parameter : {Absent},
          jwks_url : {Absent}, claims_mapping : {NoMapping}]

NilMiddleware == [type |-> "nil"]

\* createHTTPHeaderMiddleware: <<middleware, err>>.
createHTTPHeaderMiddleware(configMap) ==
    IF UnmarshalString(configMap.header) = "" THEN <<NilMiddleware, TRUE>>
    ELSE IF UnmarshalString(configMap.parameter) = "" THEN <<NilMiddleware, TRUE>>
    ELSE << [type |-> "http-header",
             header |-> UnmarshalString(configMap.header),
             parameter |-> UnmarshalString(configMap.parameter)], FALSE >>

\* A factory that does not look at claims_mapping.
createJWKSVerificationMiddlewareAnyMapping(configMap) ==
    IF UnmarshalString(configMap.jwks_url) = "" THEN <<NilMiddleware, TRUE>>
    ELSE << [type |-> "jwks-verification",
             jwksURL |-> UnmarshalString(configMap.jwks_url),
             claimsMapping |-> UnmarshalMap(configMap.claims_mapping)], FALSE >>

\* createJWKSVerificationMiddleware: <<middleware, err>>.
createJWKSVerificationMiddleware(configMap) ==
    IF UnmarshalString(configMap.jwks_url) = "" THEN <<NilMiddleware, TRUE>>
    ELSE IF DOMAIN UnmarshalMap(configMap.claims_mapping) = {}
         THEN <<NilMiddleware, TRUE>>
    ELSE << [type |-> "jwks-verification",
             jwksURL |-> UnmarshalString(configMap.jwks_url),
             claimsMapping |-> UnmarshalMap(configMap.claims_mapping)], FALSE >>

\* CreateMiddleware: <<middleware, err>>.
CreateMiddleware(middlewareConfig) ==
    IF middlewareConfig.type = "http-header"
    THEN createHTTPHeaderMiddleware(middlewareConfig)
    ELSE IF middlewareConfig.type = "jwks-verification"
    THEN createJWKSVerificationMiddleware(middlewareConfig)
    ELSE <<NilMiddleware, TRUE>>

\* The loop of CreateMiddlewareChain from entry i on, the chain built so
\* far being acc: [chain, err, made], made being what the calls of
\* CreateMiddleware returned.
RECURSIVE CreateMiddlewareChainFrom(_, _, _, _)
CreateMiddlewareChainFrom(configs, i, acc, made) ==
    IF i > Len(configs) THEN [chain |-> acc, err |-> FALSE, made |-> made]
    ELSE LET r == CreateMiddleware(configs[i])
         IN  IF r[2]
             THEN [chain |-> <<>>, err |-> TRUE, made |-> Append(made, r)]
             ELSE CreateMiddlewareChainFrom(configs, i + 1, Append(acc, r[1]),
                                            Append(made, r))

CreateMiddlewareChain(configs) ==
    IF Len(configs) = 0 THEN [chain |-> <<>>, err |-> FALSE, made |-> <<>>]
    ELSE CreateMiddlewareChainFrom(configs, 1, <<>>, <<>>)

ServerConfigs ==
    UNION { [1 .. k -> MiddlewareConfigs] : k \in 0 .. MaxChainConfigs }

InitFactory ==
    /\ ClientInit
    /\ NoMiddleware
    /\ OnDemandInit
    /\ callArg \in ServerConfigs
    /\ callOut = [done |-> FALSE]

\* server.New calls CreateMiddlewareChain(serverConfig).
FactoryCall ==
    /\ ~callOut.done
    /\ LET r == CreateMiddlewareChain(callArg)
       IN  callOut' = [done |-> TRUE, chain |-> r.chain, err |-> r.err,
                       made |-> r.made]
    /\ UNCHANGED callArg
    /\ UNCHANGED <<clientVars, mwVars, onDemandVars>>

NextFactory == FactoryCall

SpecFactory == InitFactory /\ [][NextFactory]_vars

(***************************************************************************)
(* fetchJWKSFromServer on the key lists of a JWKS document: callArg is the *)
(* "keys" array of the response.                                           *)
(***************************************************************************)
\* The entries: usable RSA keys (by modulus, by certificate, a second one
\* for k1), a key that is not RSA, and RSA entries with a bad certificate,
\* an undecodable modulus, and neither x5c nor n.
KeyEntries ==
    { JWK("RSA", "k1", <<>>, "modA"),
      JWK("RSA", "k2", <<"certB">>, ""),
      JWK("RSA", "k1", <<>>, "modB"),
      JWK("EC", "k1", <<>>, "modE"),
      JWK("RSA", "k2", <<"badcert">>, "modA"),
      JWK("RSA", "k1", <<>>, "undecodable"),
      JWK("RSA", "k2", <<>>, "") }

KeyArrays == UNION { [1 .. k -> KeyEntries] : k \in 0 .. MaxKeys }

InitKeys ==
    /\ ClientInit
    /\ NoMiddleware
    /\ OnDemandInit
    /\ callArg \in KeyArrays
    /\ callOut = [done |-> FALSE]

\* The endpoint answers 200 with the key array.
KeysFetch ==
    /\ ~callOut.done
    /\ LET resp == [kind |-> "ok", status |-> 200, cc |-> <<>>,
                    body |-> [json |-> TRUE, keys |-> callArg]]
           r == fetchJWKSFromServer(resp, 1)
       IN  callOut' = [done |-> TRUE, err |-> r[2], keysByID |-> r[1].keysByID]
    /\ UNCHANGED callArg
    /\ UNCHANGED <<clientVars, mwVars, onDemandVars>>

NextKeys == KeysFetch

SpecKeys == InitKeys /\ [][NextKeys]_vars

(***************************************************************************)
(* Chain.Close.  A middleware of the chain is told by whether it has a     *)
(* Close method (CloseableMiddleware) and whether that Close fails.        *)
(***************************************************************************)
Closeables == [closeable : {FALSE}, closeErr : {FALSE}]
              \cup [closeable : {TRUE}, closeErr : BOOLEAN]

ClosingChains == UNION { [1 .. k -> Closeables] : k \in 0 .. MaxCloseChain }

CloseStart == [done |-> FALSE, i |-> 1, closed |-> <<>>, err |-> "nil"]

InitClose ==
    /\ ClientInit
    /\ NoMiddleware
    /\ OnDemandInit
    /\ callArg \in ClosingChains
    /\ callOut = CloseStart

\* A loop body that gives up at the first Close that fails.
closeOneOrStop(c, out) ==
    IF c[out.i].closeable
    THEN IF c[out.i].closeErr
         THEN [out EXCEPT !.closed = Append(@, out.i), !.i = Len(c) + 1,
                          !.err = "close failed"]
         ELSE [out EXCEPT !.closed = Append(@, out.i), !.i = @ + 1]
    ELSE [out EXCEPT !.i = @ + 1]

\* The body of the loop of Chain.Close for the middleware c[out.i]: its
\* Close is called when it has one, an error is logged.
closeOne(c, out) ==
    IF c[out.i].closeable
    THEN [out EXCEPT !.closed = Append(@, out.i), !.i = @ + 1]
    ELSE [out EXCEPT !.i = @ + 1]

\* One turn of "for _, middleware := range c".
ChainCloseStep ==
    /\ ~callOut.done
    /\ callOut.i <= Len(callArg)
    /\ callOut' = closeOne(callArg, callOut)
    /\ UNCHANGED callArg
    /\ UNCHANGED <<clientVars, mwVars, onDemandVars>>

\* return nil
ChainCloseReturn ==
    /\ ~callOut.done
    /\ callOut.i > Len(callArg)
    /\ callOut' = [callOut EXCEPT !.done = TRUE]
    /\ UNCHANGED callArg
    /\ UNCHANGED <<clientVars, mwVars, onDemandVars>>

NextClose ==
    \/ ChainCloseStep
    \/ ChainCloseReturn

SpecClose == InitClose /\ [][NextClose]_vars

(***************************************************************************)
(* The JWKS client's properties.                                           *)
(***************************************************************************)
Expired == now - cache.fetchedAt >= cache.ttl

\* The kids of the entries of a key list that are RSA keys with usable key
\* material.
ParseableKids(keys) ==
    { keys[i].kid : i \in { j \in DOMAIN keys :
          /\ keys[j].kty = "RSA"
          /\ \/ Len(keys[j].x5c) > 0 /\ keys[j].x5c[1] # "badcert"
             \/ Len(keys[j].x5c) = 0 /\ keys[j].n # "" } }

\* C1: GetPublicKey never causes an HTTP request: every request the endpoint
\* receives is sent by the background task's fetch, no step of a GetPublicKey
\* call changes the number of requests, and a call for a kid that is not in
\* the cache returns not-found.
C1_NoRequestTriggeredFetch ==
    [][ /\ fetchCount' # fetchCount =>
              bgPc = "refresh" /\ bgPc' = "fetching" /\ rdPc' = rdPc
        /\ \A r \in Readers :
              rdPc[r] = "locked" /\ rdPc'[r] = "returning" =>
                  /\ fetchCount' = fetchCount
                  /\ rdKid[r] \notin DOMAIN cache.keysByID =>
                         ~rdResult'[r].found ]_vars

\* C1 witness: with keys cached and the ttl elapsed, a call for the unknown
\* kid k3 has returned not-found, and so has a call on the empty cache.
C1_Witness ==
    \E r \in Readers :
        /\ rdPc[r] = "returning"
        /\ rdKid[r] = "k3"
        /\ ~rdResult[r].found
        /\ DOMAIN cache.keysByID # {}
        /\ Expired
        /\ fetchCount >= 1

\* C2: serve-stale: whenever the cache can be read, GetPublicKey returns, for
\* every kid of the latest successful fetch, the key that fetch delivered,
\* whatever the number of failed fetches since and whether or not the ttl
\* has elapsed.
C2_ServeStale ==
    ~rwWriter =>
        \A kid \in DOMAIN hist.committed.keysByID :
            GetPublicKeyValue(cache, kid) =
                [found |-> TRUE, key |-> hist.committed.keysByID[kid]]

\* C2 witness: two failed fetches after a successful one, the ttl elapsed,
\* and a call has returned the key of the successful fetch.
C2_Witness ==
    \E r \in Readers :
        /\ failureCount >= 2
        /\ Expired
        /\ ~rwWriter
        /\ rdPc[r] = "returning"
        /\ rdResult[r].found
        /\ rdResult[r].key = hist.committed.keysByID[rdKid[r]]

\* C3: whenever the cache can be read after a successful fetch, GetPublicKey
\* finds a kid iff the kid is one of the parseable RSA keys of the latest
\* successfully fetched response: the key map is replaced wholesale.
C3_KeysOfLatestFetch ==
    ~rwWriter /\ hist.committed # InitCache =>
        \A kid \in Kids \cup {"k3"} :
            GetPublicKeyValue(cache, kid).found
                <=> kid \in ParseableKids(hist.served)

\* C3 witness: a call for k1, cached by an earlier fetch and absent from the
\* latest response, has returned not-found.
C3_Witness ==
    \E r \in Readers :
        /\ rdPc[r] = "returning"
        /\ rdKid[r] = "k1"
        /\ ~rdResult[r].found
        /\ "k1" \in hist.everKids
        /\ "k1" \notin ParseableKids(hist.served)
        /\ ParseableKids(hist.served) # {}
        /\ ~rwWriter

\* C4: a reader holding the read lock sees the complete record of one fetch:
\* keys, ttl and fetchedAt are those of the latest applied successful fetch,
\* never a mixture of two fetches.
C4_AtomicSnapshot ==
    \A r \in Readers : rdPc[r] = "locked" => cache = hist.committed

\* C4 witness: a reader holds the read lock while the background task waits
\* for the write lock with a fetched record that differs from the cache in
\* keys, ttl and fetchedAt.
C4_Witness ==
    \E r \in Readers :
        /\ rdPc[r] = "locked"
        /\ bgPc = "lock"
        /\ bgErr = "nil"
        /\ hist.committed # InitCache
        /\ bgNew.keysByID # cache.keysByID
        /\ bgNew.ttl # cache.ttl
        /\ bgNew.fetchedAt # cache.fetchedAt

\* C5: Close returns only after the background task has exited, and once it
\* has returned no fetch is started and neither the cache record nor
\* FailureCount changes.
C5_CloseJoinsTask ==
    [][ /\ closePc' = "returned" => bgPc' = "exited"
        /\ closePc = "returned" =>
              /\ fetchCount' = fetchCount
              /\ cache' = cache
              /\ failureCount' = failureCount ]_vars

\* C5 witness: Close has returned after being called while a fetch was in
\* flight: the task applied that fetch's failure and exited.
C5_Witness ==
    /\ closePc = "returned"
    /\ bgPc = "exited"
    /\ failureCount = 1
    /\ fetchCount = 1

(***************************************************************************)
(* The middleware's properties.                                            *)
(***************************************************************************)
\* The bearer middleware's handler is the one running.
AtBearer ==
    /\ reqPc = "running"
    /\ Handler[pos] # 0
    /\ chain[Handler[pos]].type = "bearer-jwks"

BearerCfg == chain[Handler[pos]]

\* next was called, once, by the handler running.
NextCalledOnce ==
    /\ pos + 1 \in DOMAIN Handler
    /\ invoked' = Append(invoked, Handler[pos + 1])

\* C6: when required, a request with no Authorization header, a header that
\* is not "Bearer <token>", an empty token or a token that fails verification
\* is answered 401 and next is never called.
C6_RequiredRejects ==
    [][ AtBearer /\ BearerCfg.required /\ AuthFails(BearerCfg, req.auth) =>
            /\ status' = 401
            /\ reqPc' = "done"
            /\ invoked' = invoked
            /\ captured' = captured ]_vars

\* C6 witness: a required bearer middleware, first of two, has answered 401
\* to an empty bearer token; nothing after it was called.
C6_Witness ==
    /\ reqPc = "done"
    /\ status = 401
    /\ Len(chain) = 2
    /\ chain[1].type = "bearer-jwks"
    /\ chain[1].required
    /\ req.auth.present /\ req.auth.scheme = "Bearer " /\ req.auth.blank
    /\ invoked = <<1>>

\* C7: when not required, every authentication failure makes the handler call
\* next exactly once with the request's parameter set as it was, and write no
\* response.
C7_OptionalPassesThrough ==
    [][ AtBearer /\ ~BearerCfg.required /\ AuthFails(BearerCfg, req.auth) =>
            /\ NextCalledOnce
            /\ ctx' = ctx
            /\ status' = 0
            /\ reqPc' = "running" ]_vars

\* C7 witness: an optional bearer middleware behind a header middleware let a
\* token with a bad signature through; the final handler found the header's
\* parameter and nothing else.
C7_Witness ==
    /\ reqPc = "done"
    /\ status = 200
    /\ Len(chain) = 2
    /\ chain[2].type = "bearer-jwks"
    /\ ~chain[2].required
    /\ ReachesValidation(req.auth)
    /\ req.auth.token.wellFormed
    /\ req.auth.token.signedBy = "modX"
    /\ invoked = <<1, 2, 0>>
    /\ captured = [p \in {"user_id"} |-> "1"]

\* A step of the bearer middleware's handler for a token that verifies.
BearerAccepts == AtBearer /\ ~AuthFails(BearerCfg, req.auth)

TokenClaims == req.auth.token.claims
Present == PresentClaims(BearerCfg, TokenClaims)
Targets == { BearerCfg.claimsMapping[c] : c \in Present }
\* The parameter set the request carries before the step.
OldParams == IF ctx.has THEN ctx.params ELSE EmptyParams

\* The parts of C8 that do not depend on how colliding claims are resolved:
\* a parameter enters the set only as the target of a present claim, every
\* other parameter keeps its value, and next is called exactly once.
C8Frame ==
    /\ ctx'.has
    /\ DOMAIN ctx'.params = (DOMAIN OldParams) \cup Targets
    /\ \A p \in (DOMAIN OldParams) \ Targets : ctx'.params[p] = OldParams[p]
    /\ NextCalledOnce
    /\ status' = 0

\* C8 as stated: on successful verification the parameter set handed to
\* next contains param = claim value for every pair of claimsMapping whose
\* claim is in the token, no entry for absent mapped claims, every other
\* parameter unchanged, and next is called exactly once.
C8_EveryPairSet ==
    [][ BearerAccepts =>
            /\ C8Frame
            /\ \A c \in Present :
                  ctx'.params[BearerCfg.claimsMapping[c]] = TokenClaims[c] ]_vars

\* C8 as amended: the same, except that a parameter to which several present
\* claims are mapped holds the value of one of them.
C8_MappedParams ==
    [][ BearerAccepts =>
            /\ C8Frame
            /\ \A p \in Targets :
                  \E c \in Present :
                      /\ BearerCfg.claimsMapping[c] = p
                      /\ ctx'.params[p] = TokenClaims[c] ]_vars

\* C8 witness: behind a header middleware that set tenant_id, the bearer
\* middleware verified a token with sub and role, and next was called with
\* user_id, user_role and tenant_id.
C8_Witness ==
    /\ reqPc = "running"
    /\ Len(chain) = 3
    /\ invoked = <<1, 2, 3>>
    /\ ctx.has
    /\ ctx.params = [p \in {"tenant_id", "user_id", "user_role"} |->
                        IF p = "tenant_id" THEN "1"
                        ELSE IF p = "user_id" THEN "5" ELSE "admin"]

\* C9: the handlers are called in configuration order, the first middleware
\* of the chain outermost and the final handler last.
C9_FirstIsOutermost ==
    \A k \in DOMAIN invoked :
        invoked[k] = IF k <= Len(chain) THEN k ELSE 0

\* C9 witness: a request went through a chain of three middleware and
\* reached the final handler.
C9_Witness ==
    /\ reqPc = "done"
    /\ status = 200
    /\ Len(chain) = 3
    /\ invoked = <<1, 2, 3, 0>>

\* C10: when several middleware of the chain set the same parameter, the
\* final handler finds the value written by the one configured last.
C10_LastWriterWins ==
    reqPc = "done" /\ status = 200 =>
        \A j \in DOMAIN writes :
            \A p \in DOMAIN writes[j].params :
                (\A i \in DOMAIN writes :
                    p \in DOMAIN writes[i].params => writes[i].by <= writes[j].by)
                => p \in DOMAIN captured /\ captured[p] = writes[j].params[p]

\* C10 witness: with [bearer-jwks mapping sub to user_id, http-header mapping
\* X-User-ID to user_id], the token's sub is "5", the header is "1" and the
\* final handler found user_id = "1".
C10_Witness ==
    /\ reqPc = "done"
    /\ status = 200
    /\ Len(chain) = 2
    /\ chain[1].type = "bearer-jwks"
    /\ chain[2].type = "http-header"
    /\ Len(writes) = 2
    /\ writes[1].params["user_id"] = "5"
    /\ writes[2].params["user_id"] = "1"
    /\ captured["user_id"] = "1"

(***************************************************************************)
(* The on-demand client's health.                                          *)
(***************************************************************************)
\* C11: IsHealthy returns true iff no fetch has ever been attempted, or the
\* key map is non-empty and the time since fetchedAt is less than ttl.
C11_HealthyIffFreshKeys ==
    IsHealthy <=>
        \/ ~fetchLog.attempted
        \/ /\ Cardinality(DOMAIN jwksCache.keysByID) > 0
           /\ SinceLess(jwksCache.fetchedAt, jwksCache.ttl)

\* C12: until the initial fetch has completed IsHealthy returns false, and
\* it returns true once the initial fetch has succeeded with at least one key
\* and a ttl that has not run out.
C12_UnhealthyUntilInitialFetch ==
    /\ ~fetchLog.attempted => ~IsHealthy
    /\ /\ fetchLog.succeeded
       /\ ~fetchLog.failedSince
       /\ Cardinality(DOMAIN jwksCache.keysByID) > 0
       /\ SinceLess(jwksCache.fetchedAt, jwksCache.ttl)
       => IsHealthy

(***************************************************************************)
(* The backoff's bounds.                                                   *)
(***************************************************************************)
\* min(30 * 2^(n-1), 600) seconds, in quarters of the base interval.
CappedInterval(n) ==
    Min(BaseIntervalQ * Pow2(n - 1, MaxIntervalQ), MaxIntervalQ)

\* C13: for every failure count n >= 1 the computed delay lies between 0.75
\* and 1.25 times min(30 * 2^(n-1), 600) seconds, also when 30 s * 2^(n-1)
\* is beyond the range of an int64 of nanoseconds; for n = 0 it is 0.
C13_BackoffWithinBounds ==
    callOut.done =>
        IF callArg = 0 THEN callOut.val = 0
        ELSE /\ callOut.val >= (3 * CappedInterval(callArg)) \div 4
             /\ callOut.val <= (5 * CappedInterval(callArg)) \div 4

(***************************************************************************)
(* The TTL of a fetched record.                                            *)
(***************************************************************************)
\* The max-age directives of a header that carry a number N >= 0.
MaxAges(cc) ==
    { i \in DOMAIN cc : cc[i].name = "max-age" /\ cc[i].atoi /\ cc[i].val >= 0 }

\* The header carries no-cache or no-store.
NoCaching(cc) == \E i \in DOMAIN cc : cc[i].name \in {"no-cache", "no-store"}

\* The stored ttl is the N seconds of the directive d.
IsSecondsOf(ttl, d) == ~d.beyond /\ ttl = d.val

\* C14: the TTL stored by a successful fetch is N seconds when the response
\* carries max-age=N (also among other directives), 0 when it carries
\* no-cache or no-store, and the fallback TTL when the header is absent or
\* has no parseable max-age.  The three cases are taken apart: max-age
\* without no-cache and no-store, no-cache or no-store without max-age,
\* neither.
C14_TTLFromCacheControl ==
    callOut.done =>
        /\ callOut.err = "nil"
        /\ MaxAges(callArg) # {} /\ ~NoCaching(callArg) =>
               \E i \in MaxAges(callArg) : IsSecondsOf(callOut.ttl, callArg[i])
        /\ MaxAges(callArg) = {} /\ NoCaching(callArg) => callOut.ttl = 0
        /\ MaxAges(callArg) = {} /\ ~NoCaching(callArg) => callOut.ttl = FallbackTTL

(***************************************************************************)
(* The bearer middleware and the network.                                  *)
(***************************************************************************)
\* C15: verifying a token never fetches the JWKS on the request path: an
\* unknown kid is a verification failure decided from memory alone.
C15_NoFetchOnRequestPath == mwFetches = 0

(***************************************************************************)
(* The factory's errors.                                                   *)
(***************************************************************************)
\* A bearer middleware entry without a jwks_url or without a claims_mapping.
Incomplete(cfg) ==
    /\ cfg.type = "jwks-verification"
    /\ \/ cfg.jwks_url \in {Absent, ""}
       \/ ~cfg.claims_mapping.present
       \/ DOMAIN cfg.claims_mapping.map = {}

\* C16: creating the bearer middleware fails with an error and yields no
\* instance when jwks_url is missing or empty or claims_mapping is missing
\* or empty, and CreateMiddlewareChain then fails as a whole, returning no
\* chain.
C16_FactoryFailsFast ==
    callOut.done =>
        \A i \in DOMAIN callArg :
            Incomplete(callArg[i]) =>
                /\ callOut.err
                /\ callOut.chain = <<>>
                /\ i \in DOMAIN callOut.made =>
                       callOut.made[i] = <<NilMiddleware, TRUE>>

\* C16 witness: the second entry has a jwks_url and an empty claims_mapping
\* behind a complete http-header entry; the call returned an error and no
\* chain.
C16_Witness ==
    /\ callOut.done
    /\ Len(callArg) = 2
    /\ callArg[1].type = "http-header"
    /\ callArg[1].header = "X-User-ID"
    /\ callArg[1].parameter = "user_id"
    /\ callArg[2].type = "jwks-verification"
    /\ callArg[2].jwks_url = "http://idp/jwks.json"
    /\ callArg[2].claims_mapping = Mapping(EmptyParams)
    /\ callOut.err
    /\ callOut.chain = <<>>
    /\ Len(callOut.made) = 2

(***************************************************************************)
(* Short-circuit and Chain.Close.                                          *)
(***************************************************************************)
\* C17: when a middleware writes a response without calling next (the
\* bearer middleware's 401, the header middleware's 400), no middleware
\* configured after it and not the final handler runs for that request.
C17_ShortCircuit ==
    [][ status' \in {400, 401} =>
            /\ reqPc' = "done"
            /\ invoked' = invoked
            /\ Len(invoked') = pos'
            /\ \A k \in DOMAIN invoked' : invoked'[k] # 0
            /\ captured' = EmptyParams ]_vars

\* C17 witness: in a chain of three the bearer middleware, second, answered
\* 401; the header middleware behind it and the final handler did not run.
C17_Witness ==
    /\ reqPc = "done"
    /\ status = 401
    /\ Len(chain) = 3
    /\ chain[2].type = "bearer-jwks"
    /\ invoked = <<1, 2>>
    /\ captured = EmptyParams

\* The indices of the closeable middleware of c, in chain order, up to n.
RECURSIVE CloseableUpTo(_, _)
CloseableUpTo(c, n) ==
    IF n = 0 THEN <<>>
    ELSE IF c[n].closeable THEN Append(CloseableUpTo(c, n - 1), n)
    ELSE CloseableUpTo(c, n - 1)

\* C18: Chain.Close calls Close on every middleware of the chain that has
\* one, in chain order, goes on after a Close that returns an error, and
\* itself returns no error.
C18_CloseBestEffort ==
    callOut.done =>
        /\ callOut.closed = CloseableUpTo(callArg, Len(callArg))
        /\ callOut.err = "nil"

\* C18 witness: of three middleware the first has a Close that fails, the
\* second has none and the third has one that succeeds; Close was called
\* on the first and the third and Chain.Close returned nil.
C18_Witness ==
    /\ callOut.done
    /\ Len(callArg) = 3
    /\ callArg[1] = [closeable |-> TRUE, closeErr |-> TRUE]
    /\ callArg[2] = [closeable |-> FALSE, closeErr |-> FALSE]
    /\ callArg[3] = [closeable |-> TRUE, closeErr |-> FALSE]
    /\ callOut.closed = <<1, 3>>
    /\ callOut.err = "nil"

(***************************************************************************)
(* Issuer and audience.                                                    *)
(***************************************************************************)
\* The request's token passes everything validateToken checks before the
\* issuer: it parses, is RS256, names a key the cache or the endpoint has,
\* is signed by that key and has not expired.
SignatureVerifies ==
    LET t == req.auth.token
    IN  /\ ReachesValidation(req.auth)
        /\ t.wellFormed /\ t.alg = "RS256" /\ t.hasKid /\ ~t.expired
        /\ IF t.kid \in DOMAIN keyCache THEN keyCache[t.kid] = t.signedBy
           ELSE /\ jwksServed # DownKeys
                /\ t.kid \in DOMAIN jwksServed
                /\ jwksServed[t.kid] = t.signedBy

\* Nothing is expected of the claim, or it is a string equal to expected.
ClaimMatches(name, expected) ==
    \/ expected = ""
    \/ /\ name \in DOMAIN TokenClaims
       /\ IsString(TokenClaims[name])
       /\ TokenClaims[name] = expected

\* C19: a token that verifies is accepted (its claims are mapped) exactly
\* when, for issuer and for audience, either nothing is configured or the
\* claim is a string equal to the configured value.
C19_IssuerAudience ==
    [][ AtBearer /\ SignatureVerifies =>
            ( (writes' # writes) <=>
                  /\ ClaimMatches("iss", BearerCfg.issuer)
                  /\ ClaimMatches("aud", BearerCfg.audience) ) ]_vars

\* C19 witness: with audience "aud1" configured and required, a verifying
\* token whose aud is the array ["aud1"] was answered 401.
C19_Witness ==
    /\ reqPc = "done"
    /\ status = 401
    /\ Len(chain) = 1
    /\ chain[1].audience = "aud1"
    /\ chain[1].issuer = ""
    /\ ReachesValidation(req.auth)
    /\ req.auth.token.signedBy = "modA"
    /\ req.auth.token.kid = "k1"
    /\ ~req.auth.token.expired
    /\ req.auth.token.alg = "RS256"
    /\ "k1" \in DOMAIN keyCache
    /\ "aud" \in DOMAIN req.auth.token.claims
    /\ req.auth.token.claims["aud"] = "[aud1]"

C21_AggregateHealth ==
    (callOut.done /\ callOut.code # 405) =>
        /\ callOut.status = "healthy" =>
               /\ callArg.dbHealthy
               /\ \A i \in DOMAIN callArg.chain :
                      callArg.chain[i].enabled => callArg.chain[i].healthy
        /\ \A i \in callOut.middleware : callArg.chain[i].enabled

(***************************************************************************)
(* The parameters of a query.                                              *)
(***************************************************************************)
\* C22: in the parameters handed to query execution, every name the
\* middleware chain has set carries the middleware's value, whatever the
\* body holds.
C22_BodyCannotOverride ==
    (callOut.done /\ callOut.executed /\ callArg.ctx.has) =>
        \A n \in DOMAIN callArg.ctx.params :
            /\ n \in DOMAIN callOut.allParams
            /\ callOut.allParams[n] = callArg.ctx.params[n]

\* C22 witness: the body gives user_id, a parameter of the query, and the
\* middleware has set user_id; the query is executed with the middleware's.
C22_Witness ==
    /\ callOut.done
    /\ callOut.executed
    /\ "user_id" \in callArg.params
    /\ "user_id" \in DOMAIN callArg.body
    /\ callArg.ctx.has
    /\ "user_id" \in DOMAIN callArg.ctx.params
    /\ callOut.allParams["user_id"] = "from-mw"

(***************************************************************************)
(* The refresh task and the lock.                                          *)
(***************************************************************************)
\* The positions of performRefresh between Lock() and Unlock().
WriteSection == {"w_fail", "w_count", "w_fetchedAt", "w_keys", "w_ttl", "unlock"}

\* C23: while the HTTP fetch is in flight the task holds no lock on the
\* cache, the write lock is held only while the outcome is written, and a
\* GetPublicKey issued during the fetch can take each of its steps without
\* the fetch having returned.
C23_FetchOutsideLock ==
    /\ bgPc = "fetching" =>
          /\ ~rwWriter
          /\ \A r \in Readers :
                ENABLED (RdLock(r) \/ RdLookup(r) \/ RdReturn(r))
    /\ rwWriter => bgPc \in WriteSection

\* C23 witness: during the second fetch a caller of GetPublicKey has its
\* key and is about to return.
C23_Witness ==
    /\ bgPc = "fetching"
    /\ fetchCount = 2
    /\ \E r \in Readers : rdPc[r] = "returning" /\ rdResult[r].found

\* C24: the endpoint is asked only by the refresh task, one request at a
\* time, and only after the outcome of the previous attempt is in the cache:
\* the fetched record after a success, a counted failure after a failure.
C24_FetchesSerialized ==
    [][ fetchCount' # fetchCount =>
            /\ fetchCount' = fetchCount + 1
            /\ bgPc = "refresh"
            /\ bgPc' = "fetching"
            /\ ~rwWriter
            /\ fetchCount > 0 =>
                  IF bgErr = "nil"
                  THEN cache = bgNew /\ failureCount = 0 /\ hist.committed = bgNew
                  ELSE failureCount > 0 ]_vars

\* C24 witness: the third attempt is in flight, the first having failed and
\* the second having stored its keys.
C24_Witness ==
    /\ bgPc = "fetching"
    /\ fetchCount = 3
    /\ bgErr = "nil"
    /\ cache = bgNew
    /\ Cardinality(DOMAIN cache.keysByID) > 0
    /\ cache.fetchedAt > 1 + FetchSeconds

\* C25: failureCount is the number of attempts that failed since the latest
\* successful one: a failed attempt adds exactly 1, a successful attempt
\* sets it to 0, and nothing else, GetPublicKey included, changes it.
C25_FailureCountIsFailedRun ==
    [][ /\ failureCount' # failureCount =>
              \/ bgPc = "w_fail" /\ bgErr # "nil" /\ failureCount' = failureCount + 1
              \/ bgPc = "w_count" /\ bgErr = "nil" /\ failureCount' = 0
        /\ ~rwWriter' => failureCount' = hist'.failedRun ]_vars

\* C25 witness: after a successful attempt two attempts have failed.
C25_Witness ==
    /\ ~rwWriter
    /\ fetchCount = 3
    /\ Cardinality(DOMAIN cache.keysByID) > 0
    /\ hist.failedRun = 2
    /\ failureCount = 2

(***************************************************************************)
(* The schedule of the refresh loop.                                       *)
(***************************************************************************)
\* fetchedAt + 0.8 * ttl
RefreshAfter == cache.fetchedAt + ((cache.ttl * 4) \div 5)

\* C26: the loop sets its timer to fetchedAt + 0.8 * ttl (to now when that
\* instant is past) when the cache holds a key and failureCount is 0, and
\* otherwise to a backoff duration of failureCount from now; every attempt
\* but the first starts when that timer has fired.
C26_WaitRule ==
    [][ /\ (bgPc = "compute" /\ bgPc' = "select") =>
              IF Cardinality(DOMAIN cache.keysByID) > 0 /\ failureCount = 0
              THEN wakeAt' = (IF RefreshAfter < now THEN now ELSE RefreshAfter)
              ELSE \E q \in calculateBackoffDuration(failureCount) :
                       wakeAt' = now + SecondsOf(q)
        /\ (bgPc' = "refresh" /\ bgPc # "refresh") =>
              bgPc = "select" /\ now >= wakeAt ]_vars

\* C26 witness: a refresh of a populated cache has failed after the 80%
\* instant; the timer is set one base interval ahead.
C26_Witness ==
    /\ bgPc = "select"
    /\ Cardinality(DOMAIN cache.keysByID) > 0
    /\ failureCount = 1
    /\ RefreshAfter < now
    /\ wakeAt = now + BaseIntervalSec

(***************************************************************************)
(* Failed and partly valid fetches.                                        *)
(***************************************************************************)
\* The answers with status 200 whose body is not JSON.
MalformedResponses ==
    { resp \in Responses : resp.kind = "ok" /\ resp.status = 200 /\ ~resp.body.json }

\* C27: a fetch answered with malformed JSON is recorded as failed
\* (lastFetchOK false) and leaves keysByID, ttl and fetchedAt as they were.
C27_MalformedLikeNetworkError ==
    \A resp \in MalformedResponses :
        \A preserveOnError \in BOOLEAN :
            LET r == fetchJWKS(preserveOnError, resp)
            IN  /\ ~r.ok
                /\ ~r.cache.lastFetchOK
                /\ r.cache.keysByID = jwksCache.keysByID
                /\ r.cache.ttl = jwksCache.ttl
                /\ r.cache.fetchedAt = jwksCache.fetchedAt

\* The entry is an RSA key that parses.
UsableKey(key) == key.kty = "RSA" /\ parseRSAKey(key) # NoKey

\* C28: an entry that is not RSA or does not parse is dropped alone: the
\* fetch succeeds, the kid of every usable RSA key of the response is cached
\* with the key of a usable entry of that kid (the last one, should several
\* share the kid), and nothing else is cached.
C28_BadKeysDroppedAlone ==
    callOut.done =>
        /\ callOut.err = "nil"
        /\ \A i \in DOMAIN callArg :
              UsableKey(callArg[i]) =>
                  /\ callArg[i].kid \in DOMAIN callOut.keysByID
                  /\ \/ callOut.keysByID[callArg[i].kid] = parseRSAKey(callArg[i])
                     \/ \E j \in DOMAIN callArg :
                           /\ j > i
                           /\ UsableKey(callArg[j])
                           /\ callArg[j].kid = callArg[i].kid
        /\ \A kid \in DOMAIN callOut.keysByID :
              \E i \in DOMAIN callArg :
                  /\ UsableKey(callArg[i])
                  /\ callArg[i].kid = kid
                  /\ callOut.keysByID[kid] = parseRSAKey(callArg[i])

\* C28 witness: between a key with a bad certificate and a key that is not
\* RSA stands a usable key; it alone is cached.
C28_Witness ==
    /\ callOut.done
    /\ callOut.err = "nil"
    /\ callArg = << JWK("RSA", "k2", <<"badcert">>, "modA"),
                    JWK("RSA", "k1", <<>>, "modA"),
                    JWK("EC", "k1", <<>>, "modE") >>
    /\ callOut.keysByID = [k \in {"k1"} |-> "modA"]

(***************************************************************************)
(* Start-up and progress of the refresh task.                              *)
(***************************************************************************)
\* The outcome of the first attempt is in the cache or in the failure count.
FirstAttemptApplied ==
    /\ fetchCount >= 1
    /\ hist.failedRun >= 1 \/ hist.committed # InitCache

\* C29: NewJWKSClient returns before any fetch; the task's first step is a
\* fetch at the instant of construction; c.initialized is closed only after
\* the first attempt's outcome has been applied, and it is closed in the
\* end whether that attempt succeeded or failed.
C29_InitialFetch ==
    /\ [](fetchCount = 0 => bgPc = "refresh" /\ now = 1 /\ ~initialized)
    /\ [](initialized => FirstAttemptApplied)
    /\ <>initialized

\* C29 witness: the first attempt has failed and c.initialized is closed.
C29_Witness ==
    /\ initialized
    /\ fetchCount = 1
    /\ bgErr # "nil"
    /\ failureCount = 1
    /\ bgPc = "compute"

\* The model's horizon: the timer is set past MaxTime, no time is left for
\* an HTTP call, or the last attempt the model allows has been started.
BeyondHorizon ==
    \/ bgPc = "select" /\ wakeAt > MaxTime
    \/ now + FetchSeconds > MaxTime
    \/ fetchCount >= MaxFetches

\* C30: as long as the client is not closed the loop goes on: whatever the
\* state, a fetch attempt is in flight again later; and once the endpoint
\* has answered an attempt successfully, the cache comes to hold the keys
\* of that answer and failureCount comes back to 0.
C30_NeverStopsRetrying ==
    /\ []<>(bgPc = "fetching" \/ cancelled \/ BeyondHorizon)
    /\ (bgPc = "lock" /\ bgErr = "nil")
          ~> (bgPc = "unlock" /\ cache = bgNew /\ failureCount = 0)

\* C30 witness: two attempts have failed on an empty cache, the third has
\* stored its keys and set failureCount back to 0.
C30_Witness ==
    /\ fetchCount = 3
    /\ bgPc = "compute"
    /\ ~cancelled
    /\ failureCount = 0
    /\ Cardinality(DOMAIN cache.keysByID) > 0
    /\ cache.fetchedAt > 2 * BaseIntervalSec

\* C31: a Close that has cancelled the task returns later, wherever in its
\* loop the task was (the first fetch, a wait, a fetch in flight), unless
\* the model has no time left for the HTTP call in flight to return.
C31_CloseReturns ==
    (closePc = "waiting") ~> (closePc = "returned" \/ now + FetchSeconds > MaxTime)

\* C31 witness: Close was called during a wait between attempts and has
\* returned; the timer of that wait never fired.
C31_Witness ==
    /\ closePc = "returned"
    /\ bgPc = "exited"
    /\ wakeAt > now
    /\ fetchCount = 1

\* C32: a cache that holds keys never becomes empty again, whatever the
\* outcome of a later fetch.
C32_NeverEmptyAgain ==
    [][DOMAIN cache.keysByID # {} => DOMAIN cache'.keysByID # {}]_vars

\* C33: the delay the loop computes before its next attempt is strictly
\* positive.
C33_WaitIsPositive ==
    [][(bgPc = "compute" /\ bgPc' = "select") => wakeAt' > now]_vars

\* C34: once Close has cancelled the context the task starts no fetch
\* attempt.
C34_NoFetchAfterCancel ==
    [][cancelled => fetchCount' = fetchCount]_vars

\* C35: the bearer middleware accepts a token only if the token's kid is in
\* the key set the JWKS endpoint serves at the time of the verification.
C35_KidInCurrentKeySet ==
    ( /\ AtBearer
      /\ ReachesValidation(req.auth)
      /\ ~validateToken(BearerCfg, req.auth.token).err )
        => req.auth.token.kid \in DOMAIN jwksServed

\* C36: the parameter set the bearer middleware hands on for a verified
\* token is determined by the token's claims and the claimsMapping: the
\* handler has one possible result.
C36_MappedParamsDeterministic ==
    ( /\ AtBearer
      /\ ReachesValidation(req.auth)
      /\ ~validateToken(BearerCfg, req.auth.token).err )
        => Cardinality(MappedParams(BearerCfg,
                                    validateToken(BearerCfg, req.auth.token).claims,
                                    GetMiddlewareParams(ctx))) = 1

\* The header cc with its directives in the order p.
Reordered(cc, p) == [i \in DOMAIN cc |-> cc[p[i]]]

\* C37: for a header that carries one max-age=N and no-cache or no-store, the
\* stored TTL is the one every other order of the same directives
\* gives.
C37_DirectiveOrderIrrelevant ==
    ( /\ callOut.done
      /\ Cardinality(MaxAges(callArg)) = 1
      /\ \A i \in DOMAIN callArg : callArg[i].name = "max-age" => i \in MaxAges(callArg)
      /\ NoCaching(callArg) ) =>
        \A p \in Permutations(DOMAIN callArg) :
            parseCacheControl(Reordered(callArg, p)) = callOut.ttl

====
